---- MODULE Spec2Model ----
(***************************************************************************)
(* Model of the riftbounddecks card worker (src/worker/official.py) and of *)
(* the cards.py extraction script (src/scripts/cards.py).                  *)
(*                                                                         *)
(* Python strings are modelled as sequences of one-character strings so    *)
(* that split, strip, isdigit, lower and lexicographic comparison are      *)
(* computed the way the code computes them.                                *)
(***************************************************************************)
EXTENDS Integers, Sequences, FiniteSets, TLC

VARIABLES
    \* ---- image publisher (SpecImg) ----
    mode,        \* "spaces" | "static": args.mode
    objects,     \* destination paths present in the bucket / on disk
    partial,     \* static mode: destination files whose body is incomplete
    stats,       \* ImageStats: total_variants, new_images, missing_image_urls
    prevCall,    \* the image-handler call before the last one
    lastCall,    \* the last image-handler call (arguments, store ops, result)
    nCalls,      \* number of handler calls made in this run
    ipc,         \* "run" | "failed" (an exception left the handler)
    \* ---- grouper / sorter (SpecAsm) ----
    entries,     \* input of assemble_cards_by_name
    cards,       \* its result
    scard,       \* input of simplify_card (cards.py)
    simplified,  \* its result
    apc,         \* "input" | "done" | "sinput" | "sdone"
    \* ---- variant normalizer and fetch_cards (SpecRaw, Spec) ----
    items,       \* the raw items located in the page payload
    pos,         \* how many of them the comprehension of fetch_cards has consumed
    vcode,       \* result of build_variant_number on items[1] (SpecRaw)
    rpc,         \* "raw" | "built" | "map" | "assembled" | "failed"
    \* ---- snapshot differ and main (SpecCmp, SpecMain) ----
    old_cards,   \* the previous snapshot as load_existing_cards returned it
    diff,        \* result of compare_cards(old_cards, cards)
    mpc,         \* position of main
    env,         \* os.environ: the SPACES_* settings
    page,        \* what the card gallery URL answers
    catalog,     \* cards.json at the publish target: before the run and now
    trace,       \* the reads, fetches and writes main has issued, in order
    \* ---- two runs of fetch_cards on one input (SpecTwice) ----
    run1,        \* outcome of the first run
    run2,        \* outcome of the second run
    \* ---- normalize_variant_number alone (SpecNorm) ----
    norm,        \* a code and what the two implementations make of it
    \* ---- MongoClientManager (SpecMgr) ----
    mgr,         \* the manager, the clients its factory made, the open contexts
    \* ---- two concurrent publish operations (SpecRace) ----
    race         \* the two operations on one destination, step by step

vars == <<mode, objects, partial, stats, prevCall, lastCall, nCalls, ipc,
          entries, cards, scard, simplified, apc, items, pos, vcode, rpc,
          old_cards, diff, mpc, env, page, catalog, trace, run1, run2,
          norm, mgr, race>>
imgVars == <<mode, objects, partial, stats, prevCall, lastCall, nCalls, ipc>>
asmVars == <<entries, cards, scard, simplified, apc>>
rawVars == <<items, pos, vcode, rpc>>
runVars == <<env, page, catalog, trace>>
twiceVars == <<run1, run2>>
lateVars == <<norm, mgr, race>>
mainVars == <<old_cards, diff, mpc, runVars, twiceVars, lateVars>>

\* no normalization, manager or pair of publish operations under study
LateOff ==
    /\ norm = <<>>
    /\ mgr = <<>>
    /\ race = <<>>

\* no run of main, no pair of runs
RunOff ==
    /\ env = <<>>
    /\ page = <<>>
    /\ catalog = <<>>
    /\ trace = <<>>
    /\ run1 = <<>>
    /\ run2 = <<>>

\* main and the differ are not running
MainOff ==
    /\ old_cards = <<>>
    /\ diff = <<>>
    /\ mpc = "off"
    /\ RunOff
    /\ LateOff

(***************************************************************************)
(* Strings                                                                 *)
(***************************************************************************)

\* The characters the model uses, in ascending code-point order.
AsciiTable ==
    << "*", "-", ".", "/",
       "0", "1", "2", "3", "4", "5", "6", "7", "8", "9", ":",
       "A", "B", "C", "D", "E", "F", "G", "H", "I", "J", "K", "L", "M",
       "N", "O", "P", "Q", "R", "S", "T", "U", "V", "W", "X", "Y", "Z",
       "a", "b", "c", "d", "e", "f", "g", "h", "i", "j", "k", "l", "m",
       "n", "o", "p", "q", "r", "s", "t", "u", "v", "w", "x", "y", "z" >>

Ord(c) == CHOOSE i \in 1..Len(AsciiTable) : AsciiTable[i] = c

Digits == <<"0", "1", "2", "3", "4", "5", "6", "7", "8", "9">>
UpperLetters == SubSeq(AsciiTable, 16, 41)
LowerLetters == SubSeq(AsciiTable, 42, 67)

IsDigit(c) == \E i \in 1..Len(Digits) : Digits[i] = c
IsUpper(c) == \E i \in 1..Len(UpperLetters) : UpperLetters[i] = c
DigitVal(c) == (CHOOSE i \in 1..Len(Digits) : Digits[i] = c) - 1

\* str.lower(), one character
LowerChar(c) ==
    IF IsUpper(c)
    THEN LowerLetters[CHOOSE i \in 1..Len(UpperLetters) : UpperLetters[i] = c]
    ELSE c

\* str.lower()
Lower(s) == [i \in 1..Len(s) |-> LowerChar(s[i])]

\* Python's < on str: lexicographic by code point, a proper prefix is smaller
RECURSIVE StrLess(_, _)
StrLess(a, b) ==
    IF b = <<>> THEN FALSE
    ELSE IF a = <<>> THEN TRUE
    ELSE IF a[1] = b[1] THEN StrLess(Tail(a), Tail(b))
    ELSE Ord(a[1]) < Ord(b[1])

\* index of the first occurrence of ch in s, 0 when there is none
IndexOf(s, ch) ==
    IF \E i \in 1..Len(s) : s[i] = ch
    THEN CHOOSE i \in 1..Len(s) : s[i] = ch /\ \A j \in 1..(i - 1) : s[j] # ch
    ELSE 0

Contains(s, ch) == IndexOf(s, ch) # 0

\* s.split(ch, 1)[0] and s.split(ch)[0]
SplitHead(s, ch) ==
    IF Contains(s, ch) THEN SubSeq(s, 1, IndexOf(s, ch) - 1) ELSE s

\* s.split(ch, 1)[1], for s that contains ch
SplitRest(s, ch) == SubSeq(s, IndexOf(s, ch) + 1, Len(s))

\* s.lstrip(ch), s.rstrip(ch), s.strip(ch)
RECURSIVE LStrip(_, _)
LStrip(s, ch) ==
    IF s # <<>> /\ s[1] = ch THEN LStrip(Tail(s), ch) ELSE s

RECURSIVE RStrip(_, _)
RStrip(s, ch) ==
    IF s # <<>> /\ s[Len(s)] = ch THEN RStrip(SubSeq(s, 1, Len(s) - 1), ch) ELSE s

Strip(s, ch) == RStrip(LStrip(s, ch), ch)

\* "/".join(parts)
RECURSIVE JoinSlash(_)
JoinSlash(parts) ==
    IF parts = <<>> THEN <<>>
    ELSE IF Len(parts) = 1 THEN parts[1]
    ELSE parts[1] \o <<"/">> \o JoinSlash(Tail(parts))

\* the elements of a sequence
Range(s) == {s[i] : i \in 1..Len(s)}

\* Optional[str]: None, or a string
None == [none |-> TRUE, s |-> <<>>]
Str(s) == [none |-> FALSE, s |-> s]
\* Python truthiness of an Optional[str]: `not url`
Falsy(u) == u.none \/ u.s = <<>>

(***************************************************************************)
(* Image publisher: SpacesUploader, upload_variant_image,                  *)
(* store_variant_image_static and the two image handlers                   *)
(***************************************************************************)

MaxCalls == 3

STATIC_IMG_SUBPATH == <<"i", "m", "g">>
PngSuffix == <<".", "p", "n", "g">>

\* SpacesUploader.public_base_url and SpacesUploader.prefix of the run
\* (scheme://bucket.host and "<SPACES_PREFIX>/"), fixed by the environment
public_base_url == <<"S">>
prefix == <<"p", "/">>

\* SpacesUploader._prefixed_key
prefixed_key(relative_path) ==
    IF prefix # <<>> THEN prefix \o LStrip(relative_path, "/")
    ELSE LStrip(relative_path, "/")

\* SpacesUploader.build_public_url
build_public_url(relative_path) ==
    public_base_url \o <<"/">> \o prefixed_key(relative_path)

\* set_folder.strip("/") if set_folder else ""
NormalizedFolder(set_folder) ==
    IF set_folder # <<>> THEN Strip(set_folder, "/") ELSE <<>>

\* upload_variant_image: relative_path = img[/<folder>]/<code>.png
SpacesRelativePath(set_folder, variant_number) ==
    JoinSlash(<<STATIC_IMG_SUBPATH>>
              \o (IF NormalizedFolder(set_folder) # <<>>
                  THEN <<NormalizedFolder(set_folder)>> ELSE <<>>)
              \o <<variant_number \o PngSuffix>>)

\* store_variant_image_static: relative_path = [<folder>/]<code>.png
StaticRelativePath(set_folder, variant_number) ==
    JoinSlash((IF NormalizedFolder(set_folder) # <<>>
               THEN <<NormalizedFolder(set_folder)>> ELSE <<>>)
              \o <<variant_number \o PngSuffix>>)

\* destination = output_root / "img" / relative_path (relative to output_root)
StaticDestination(set_folder, variant_number) ==
    JoinSlash(<<STATIC_IMG_SUBPATH, StaticRelativePath(set_folder, variant_number)>>)

\* the reference store_variant_image_static returns: "/img/<relative_path>"
StaticReference(set_folder, variant_number) ==
    <<"/">> \o StaticDestination(set_folder, variant_number)

\* where the object or file of a variant lives in the publish target
Destination(m, set_folder, variant_number) ==
    IF m = "spaces"
    THEN prefixed_key(SpacesRelativePath(set_folder, variant_number))
    ELSE StaticDestination(set_folder, variant_number)

\* the reference returned for an object that is in the publish target
PublicReference(m, set_folder, variant_number) ==
    IF m = "spaces"
    THEN build_public_url(SpacesRelativePath(set_folder, variant_number))
    ELSE StaticReference(set_folder, variant_number)

\* The step of one publish that fails, if the call reaches it:
\*   head      head_object raises a non-404 ClientError or a BotoCoreError
\*   get       requests.get / raise_for_status raises a RequestException
\*   get_body  iter_content raises a RequestException in the middle of the body
\*   put       put_object raises a ClientError or a BotoCoreError
\*   mkdir     destination.parent.mkdir raises an OSError
\*   open      destination.open("wb") raises an OSError
\*   write     fp.write raises an OSError after the file was created
SpacesFaults == {"none", "head", "get", "get_body", "put"}
StaticFaults == {"none", "mkdir", "get", "open", "get_body", "write"}
Faults(m) == IF m = "spaces" THEN SpacesFaults ELSE StaticFaults

\* what one publish call did: the reference and flag it returned (or that it
\* raised), the store and network operations it issued, and the store after
Outcome(ref, isNew, raised, ops, objs, part) ==
    [ref |-> ref, isNew |-> isNew, raised |-> raised, isTuple |-> TRUE,
     ops |-> ops, objects |-> objs, partial |-> part]

\* upload_variant_image with the existence check after the download
upload_variant_image_FetchFirst(url, set_folder, variant_number, objs, part, fault) ==
    LET path == SpacesRelativePath(set_folder, variant_number)
        key == prefixed_key(path)
    IN  IF Falsy(url) THEN Outcome(<<>>, FALSE, FALSE, <<>>, objs, part)
        ELSE IF fault \in {"get", "get_body"}
        THEN Outcome(url.s, FALSE, FALSE, <<"GET">>, objs, part)
        ELSE IF fault = "head"
        THEN Outcome(<<>>, FALSE, TRUE, <<"GET", "HEAD">>, objs, part)
        ELSE IF key \in objs
        THEN Outcome(build_public_url(path), FALSE, FALSE, <<"GET", "HEAD">>, objs, part)
        ELSE IF fault = "put"
        THEN Outcome(url.s, FALSE, FALSE, <<"GET", "HEAD", "PUT">>, objs, part)
        ELSE Outcome(public_base_url \o <<"/">> \o key, TRUE, FALSE,
                     <<"GET", "HEAD", "PUT">>, objs \cup {key}, part)

\* upload_variant_image that uploads without looking at the destination
upload_variant_image_NoCheck(url, set_folder, variant_number, objs, part, fault) ==
    LET path == SpacesRelativePath(set_folder, variant_number)
        key == prefixed_key(path)
    IN  IF Falsy(url) THEN Outcome(<<>>, FALSE, FALSE, <<>>, objs, part)
        ELSE IF fault = "head"
        THEN Outcome(<<>>, FALSE, TRUE, <<"HEAD">>, objs, part)
        ELSE IF fault \in {"get", "get_body"}
        THEN Outcome(url.s, FALSE, FALSE, <<"HEAD", "GET">>, objs, part)
        ELSE IF fault = "put"
        THEN Outcome(url.s, FALSE, FALSE, <<"HEAD", "GET", "PUT">>, objs, part)
        ELSE Outcome(public_base_url \o <<"/">> \o key, TRUE, FALSE,
                     <<"HEAD", "GET", "PUT">>, objs \cup {key}, part)

\* upload_variant_image that answers the source URL for an image already
\* at the destination
upload_variant_image_SourceOnExisting(url, set_folder, variant_number, objs, part, fault) ==
    LET path == SpacesRelativePath(set_folder, variant_number)
        key == prefixed_key(path)
    IN  IF Falsy(url) THEN Outcome(<<>>, FALSE, FALSE, <<>>, objs, part)
        ELSE IF fault = "head"
        THEN Outcome(<<>>, FALSE, TRUE, <<"HEAD">>, objs, part)
        ELSE IF key \in objs
        THEN Outcome(url.s, FALSE, FALSE, <<"HEAD">>, objs, part)
        ELSE IF fault \in {"get", "get_body"}
        THEN Outcome(url.s, FALSE, FALSE, <<"HEAD", "GET">>, objs, part)
        ELSE IF fault = "put"
        THEN Outcome(url.s, FALSE, FALSE, <<"HEAD", "GET", "PUT">>, objs, part)
        ELSE Outcome(public_base_url \o <<"/">> \o key, TRUE, FALSE,
                     <<"HEAD", "GET", "PUT">>, objs \cup {key}, part)

\* upload_variant_image
upload_variant_image(url, set_folder, variant_number, objs, part, fault) ==
    LET path == SpacesRelativePath(set_folder, variant_number)
        key == prefixed_key(path)
    IN  IF Falsy(url) THEN Outcome(<<>>, FALSE, FALSE, <<>>, objs, part)
        \* uploader.object_exists: outside the try, an error propagates
        ELSE IF fault = "head"
        THEN Outcome(<<>>, FALSE, TRUE, <<"HEAD">>, objs, part)
        ELSE IF key \in objs
        THEN Outcome(build_public_url(path), FALSE, FALSE, <<"HEAD">>, objs, part)
        \* except requests.RequestException: return url or "", False
        ELSE IF fault \in {"get", "get_body"}
        THEN Outcome(url.s, FALSE, FALSE, <<"HEAD", "GET">>, objs, part)
        \* except (BotoCoreError, ClientError): return url or "", False
        ELSE IF fault = "put"
        THEN Outcome(url.s, FALSE, FALSE, <<"HEAD", "GET", "PUT">>, objs, part)
        \* uploader.upload_stream returns f"{public_base_url}/{key}"
        ELSE Outcome(public_base_url \o <<"/">> \o key, TRUE, FALSE,
                     <<"HEAD", "GET", "PUT">>, objs \cup {key}, part)

\* store_variant_image_static
store_variant_image_static(url, set_folder, variant_number, objs, part, fault) ==
    LET dest == StaticDestination(set_folder, variant_number)
        ref == StaticReference(set_folder, variant_number)
    IN  \* `return ""`: a bare string, not a (reference, flag) pair
        IF Falsy(url)
        THEN [Outcome(<<>>, FALSE, FALSE, <<>>, objs, part) EXCEPT !.isTuple = FALSE]
        ELSE IF dest \in objs
        THEN Outcome(ref, FALSE, FALSE, <<"EXISTS">>, objs, part)
        \* destination.parent.mkdir: outside the try
        ELSE IF fault = "mkdir"
        THEN Outcome(<<>>, FALSE, TRUE, <<"EXISTS", "MKDIR">>, objs, part)
        \* requests.get / raise_for_status fail before the file is opened
        ELSE IF fault = "get"
        THEN Outcome(url.s, FALSE, FALSE, <<"EXISTS", "MKDIR", "GET">>, objs, part)
        \* destination.open("wb"): an OSError is not a RequestException
        ELSE IF fault = "open"
        THEN Outcome(<<>>, FALSE, TRUE, <<"EXISTS", "MKDIR", "GET", "WRITE">>, objs, part)
        \* the body breaks off: the file opened for writing stays on disk
        ELSE IF fault = "get_body"
        THEN Outcome(url.s, FALSE, FALSE, <<"EXISTS", "MKDIR", "GET", "WRITE">>,
                     objs \cup {dest}, part \cup {dest})
        ELSE IF fault = "write"
        THEN Outcome(<<>>, FALSE, TRUE, <<"EXISTS", "MKDIR", "GET", "WRITE">>,
                     objs \cup {dest}, part \cup {dest})
        ELSE Outcome(ref, TRUE, FALSE, <<"EXISTS", "MKDIR", "GET", "WRITE">>,
                     objs \cup {dest}, part)

\* the publisher the mode selects
Publish(m, url, set_folder, variant_number, objs, part, fault) ==
    IF m = "spaces"
    THEN upload_variant_image(url, set_folder, variant_number, objs, part, fault)
    ELSE store_variant_image_static(url, set_folder, variant_number, objs, part, fault)

\* ImageStats.__init__
ImageStats == [total_variants |-> 0, new_images |-> 0, missing_image_urls |-> 0]

\* what the handler returned (or that an exception left it), the counters and
\* the store after the call
HandlerResult(ref, isNew, raised, ops, st, objs, part) ==
    [ref |-> ref, isNew |-> isNew, raised |-> raised, ops |-> ops,
     stats |-> st, objects |-> objs, partial |-> part]


\* make_spaces_image_handler.handler / make_static_image_handler.handler
\* a handler that counts a record without an image URL as missing only
handler_MissingOnly(m, st, objs, part, url, set_folder, variant_number, fault) ==
    LET st1 == [st EXCEPT !.total_variants = @ + 1]
        r == Publish(m, url, set_folder, variant_number, objs, part, fault)
    IN  IF Falsy(url)
        THEN HandlerResult(<<>>, FALSE, FALSE, <<>>,
                 [st EXCEPT !.missing_image_urls = @ + 1], objs, part)
        ELSE IF r.raised \/ ~r.isTuple
        THEN HandlerResult(<<>>, FALSE, TRUE, r.ops, st1, r.objects, r.partial)
        ELSE HandlerResult(r.ref, r.isNew, FALSE, r.ops,
                 [st1 EXCEPT !.new_images = @ + (IF r.isNew THEN 1 ELSE 0)],
                 r.objects, r.partial)

handler(m, st, objs, part, url, set_folder, variant_number, fault) ==
    LET st1 == [st EXCEPT !.total_variants = @ + 1]
        r == Publish(m, url, set_folder, variant_number, objs, part, fault)
    IN  IF Falsy(url)
        THEN HandlerResult(<<>>, FALSE, FALSE, <<>>,
                 [st1 EXCEPT !.missing_image_urls = @ + 1], objs, part)
        \* an exception of the publisher, or the failed unpacking of a bare
        \* string, leaves the handler after total_variants was counted
        ELSE IF r.raised \/ ~r.isTuple
        THEN HandlerResult(<<>>, FALSE, TRUE, r.ops, st1, r.objects, r.partial)
        ELSE HandlerResult(r.ref, r.isNew, FALSE, r.ops,
                 [st1 EXCEPT !.new_images = @ + (IF r.isNew THEN 1 ELSE 0)],
                 r.objects, r.partial)

(***************************************************************************)
(* SpecImg: a run's sequence of image-handler calls against the store      *)
(***************************************************************************)

ImgUrls == {None, Str(<<>>), Str(<<"u", "1">>)}
ImgFolders == {<<"O", "G", "N">>, <<>>}
ImgCodes == {<<"O", "G", "N", "-", "0", "0", "1">>}
Modes == {"spaces", "static"}

NoCall ==
    [made |-> FALSE, url |-> None, set_folder |-> <<>>, variant_number |-> <<>>,
     fault |-> "none", existed |-> FALSE, stored |-> {}, ops |-> <<>>,
     raised |-> FALSE, ref |-> <<>>, isNew |-> FALSE]

\* the publish target as earlier runs may have left it
InitObjects(m) ==
    {{}} \cup {{Destination(m, f, c)} : f \in ImgFolders, c \in ImgCodes}

ImgInit ==
    /\ mode \in Modes
    /\ objects \in InitObjects(mode)
    /\ partial = {}
    /\ stats = ImageStats
    /\ prevCall = NoCall
    /\ lastCall = NoCall
    /\ nCalls = 0
    /\ ipc = "run"
    /\ entries = <<>>
    /\ cards = <<>>
    /\ scard = <<>>
    /\ simplified = <<>>
    /\ apc = "off"
    /\ items = <<>>
    /\ pos = 0
    /\ vcode = <<>>
    /\ rpc = "off"
    /\ MainOff

\* one call of the image handler, as map_card_variant makes it
Handler(url, set_folder, variant_number, fault) ==
    /\ ipc = "run"
    /\ nCalls < MaxCalls
    /\ LET h == handler(mode, stats, objects, partial,
                        url, set_folder, variant_number, fault)
       IN  /\ stats' = h.stats
           /\ objects' = h.objects
           /\ partial' = h.partial
           /\ ipc' = IF h.raised THEN "failed" ELSE "run"
           /\ lastCall' =
                [made |-> TRUE, url |-> url, set_folder |-> set_folder,
                 variant_number |-> variant_number, fault |-> fault,
                 existed |-> Destination(mode, set_folder, variant_number) \in objects,
                 stored |-> h.objects \ objects, ops |-> h.ops, raised |-> h.raised,
                 ref |-> h.ref, isNew |-> h.isNew]
    /\ prevCall' = lastCall
    /\ nCalls' = nCalls + 1
    /\ UNCHANGED <<mode, asmVars, rawVars, mainVars>>

ImgNext ==
    \E url \in ImgUrls, f \in ImgFolders, c \in ImgCodes, fault \in Faults(mode) :
        Handler(url, f, c, fault)

SpecImg == ImgInit /\ [][ImgNext]_vars

(***************************************************************************)
(* Image publisher properties (checked under SpecImg)                      *)
(***************************************************************************)

\* img[/<setFolder>]/<variantCode>.png, written out
ImgPath(set_folder, variant_number) ==
    <<"i", "m", "g", "/">>
    \o (IF set_folder = <<>> THEN <<>> ELSE set_folder \o <<"/">>)
    \o variant_number \o <<".", "p", "n", "g">>

\* the reference of an object that is already published
ExistingReference(m, set_folder, variant_number) ==
    IF m = "spaces"
    THEN public_base_url \o <<"/">> \o prefix \o ImgPath(set_folder, variant_number)
    ELSE <<"/">> \o ImgPath(set_folder, variant_number)

CountOps(ops, kinds) == Cardinality({i \in 1..Len(ops) : ops[i] \in kinds})
Downloads(call) == CountOps(call.ops, {"GET"})
Uploads(call) == CountOps(call.ops, {"PUT", "WRITE"})

SameArguments(a, b) ==
    /\ a.made /\ b.made
    /\ a.url = b.url /\ ~Falsy(a.url)
    /\ a.set_folder = b.set_folder
    /\ a.variant_number = b.variant_number

FaultOp(fault) ==
    CASE fault = "head" -> "HEAD"
      [] fault \in {"get", "get_body"} -> "GET"
      [] fault = "put" -> "PUT"
      [] fault = "mkdir" -> "MKDIR"
      [] fault \in {"open", "write"} -> "WRITE"
      [] OTHER -> "NONE"

\* the last call failed in its existence check, its download or its upload /
\* write to the store
StepFailed(call) ==
    /\ call.made /\ ~Falsy(call.url)
    /\ call.fault \in {"head", "get", "get_body", "put", "open", "write"}
    /\ call.ops # <<>>
    /\ call.ops[Len(call.ops)] = FaultOp(call.fault)
    /\ (call.fault = "get_body" => mode = "spaces" \/ "WRITE" \in Range(call.ops))

\* a call that returned the degraded fallback: the source URL, not new, the
\* destination not having been there before
ReturnedFallback(call) ==
    /\ call.made
    /\ ~Falsy(call.url)
    /\ ~call.raised
    /\ ~call.existed
    /\ ~call.isNew
    /\ call.ref = call.url.s

\* C28: in filesystem mode a file exists at a destination path only if a
\* download to it completed: after a call of store_variant_image_static that
\* returned the source-URL fallback (the download failed at any point, the
\* middle of the body included) no file is at the destination, and a later
\* call with the same arguments attempts the download again.
C28_NoFileAfterFallback ==
    mode = "static" =>
        /\ ReturnedFallback(lastCall) =>
               StaticDestination(lastCall.set_folder, lastCall.variant_number)
                   \notin objects
        /\ (ReturnedFallback(prevCall) /\ SameArguments(prevCall, lastCall)) =>
               "GET" \in Range(lastCall.ops)

\* C3: a network or storage error in any step of publishing one image (the
\* existence check, the download, the upload or write) makes the publisher
\* return (source URL, false) and raise nothing, so the run goes on.
C3_FailureIsolated ==
    StepFailed(lastCall) =>
        /\ ~lastCall.raised
        /\ ipc = "run"
        /\ lastCall.ref = lastCall.url.s
        /\ ~lastCall.isNew

(***************************************************************************)
(* Grouper / sorter: parse_variant_components, variant_sort_key,           *)
(* assemble_cards_by_name                                                  *)
(***************************************************************************)

\* int(digits) for a non-empty string of decimal digits
RECURSIVE ToInt(_)
ToInt(digits) ==
    IF digits = <<>> THEN 0
    ELSE 10 * ToInt(SubSeq(digits, 1, Len(digits) - 1)) + DigitVal(digits[Len(digits)])

\* "".join(ch for ch in rest if ch.isdigit())
DigitsOf(rest) == SelectSeq(rest, IsDigit)

\* the digits a string starts with
RECURSIVE LeadingDigits(_)
LeadingDigits(s) ==
    IF s # <<>> /\ IsDigit(s[1]) THEN <<s[1]>> \o LeadingDigits(Tail(s)) ELSE <<>>


\* parse_variant_components
parse_variant_components(variant_number) ==
    IF ~Contains(variant_number, "-")
    THEN [number |-> 0, suffix |-> Lower(variant_number)]
    ELSE LET rest == SplitRest(variant_number, "-")
             digits == DigitsOf(rest)
         IN  IF digits # <<>>
             THEN [number |-> ToInt(digits),
                   suffix |-> Lower(SubSeq(rest, Len(digits) + 1, Len(rest)))]
             ELSE [number |-> 0, suffix |-> Lower(rest)]

\* variant_sort_key: (release_date, set_id, number, suffix, variantNumber)
variant_sort_key(entry) ==
    LET c == parse_variant_components(entry.variantNumber)
    IN  [releaseDate |-> entry.releaseDate,
         setId |-> IF entry.setId # <<>> THEN entry.setId
                   ELSE SplitHead(entry.variantNumber, "-"),
         number |-> c.number,
         suffix |-> c.suffix,
         variantNumber |-> entry.variantNumber]

\* Python's < on the key tuples
KeyLess(a, b) ==
    IF a.releaseDate # b.releaseDate THEN StrLess(a.releaseDate, b.releaseDate)
    ELSE IF a.setId # b.setId THEN StrLess(a.setId, b.setId)
    ELSE IF a.number # b.number THEN a.number < b.number
    ELSE IF a.suffix # b.suffix THEN StrLess(a.suffix, b.suffix)
    ELSE StrLess(a.variantNumber, b.variantNumber)

\* insert x behind every element whose key is not greater (stable)
RECURSIVE InsertByKey(_, _)
InsertByKey(sorted, x) ==
    IF sorted = <<>> THEN <<x>>
    ELSE IF KeyLess(variant_sort_key(x), variant_sort_key(sorted[Len(sorted)]))
    THEN InsertByKey(SubSeq(sorted, 1, Len(sorted) - 1), x) \o <<sorted[Len(sorted)]>>
    ELSE sorted \o <<x>>

\* sorted(grouped[name], key=variant_sort_key): stable, ascending
RECURSIVE SortVariants(_)
SortVariants(group) ==
    IF group = <<>> THEN <<>>
    ELSE InsertByKey(SortVariants(SubSeq(group, 1, Len(group) - 1)), group[Len(group)])

\* sorted(grouped): the distinct names in ascending order
RECURSIVE SortNames(_)
SortNames(names) ==
    IF names = {} THEN <<>>
    ELSE LET least == CHOOSE n \in names : \A o \in names \ {n} : StrLess(n, o)
         IN  <<least>> \o SortNames(names \ {least})

\* grouped[name]: the entries of that name, in input order
Grouped(es, name) == SelectSeq(es, LAMBDA e : e.name = name)

\* the loop over sorted_variants without the seen_variants test
DedupVariants_KeepAll(sorted_variants, seen_variants) == sorted_variants

\* the loop over sorted_variants: first occurrence of every code kept
RECURSIVE DedupVariants(_, _)
DedupVariants(sorted_variants, seen_variants) ==
    IF sorted_variants = <<>> THEN <<>>
    ELSE IF sorted_variants[1].variantNumber \in seen_variants
    THEN DedupVariants(Tail(sorted_variants), seen_variants)
    ELSE <<sorted_variants[1]>>
         \o DedupVariants(Tail(sorted_variants),
                          seen_variants \cup {sorted_variants[1].variantNumber})

\* variant_entry["variantImage"] or ""
ImageOrEmpty(image) == IF Falsy(image) THEN <<>> ELSE image.s

\* the card record with every field taken from the first sorted variant
BuildCard_AllFromBase(sorted_variants) ==
    LET base_variant == sorted_variants[1]
        kept == DedupVariants(sorted_variants, {})
    IN  [name |-> base_variant.name,
         description |-> base_variant.description,
         variantNumber |-> base_variant.variantNumber,
         variants |-> [i \in 1..Len(kept) |-> kept[i].variantNumber],
         variantImages |-> [i \in 1..Len(kept) |-> ImageOrEmpty(kept[i].variantImage)],
         type |-> base_variant.type,
         super |-> base_variant.super,
         energy |-> base_variant.energy,
         power |-> base_variant.power,
         might |-> base_variant.might,
         colors |-> base_variant.colors,
         tags |-> base_variant.tags,
         releaseDate |-> base_variant.releaseDate]

\* the card record with the identifying fields taken from the last variant
BuildCard_AllFromLast(sorted_variants) ==
    LET last_variant == sorted_variants[Len(sorted_variants)]
        kept == DedupVariants(sorted_variants, {})
    IN  [name |-> last_variant.name,
         description |-> last_variant.description,
         variantNumber |-> last_variant.variantNumber,
         variants |-> [i \in 1..Len(kept) |-> kept[i].variantNumber],
         variantImages |-> [i \in 1..Len(kept) |-> ImageOrEmpty(kept[i].variantImage)],
         type |-> last_variant.type,
         super |-> last_variant.super,
         energy |-> last_variant.energy,
         power |-> last_variant.power,
         might |-> last_variant.might,
         colors |-> last_variant.colors,
         tags |-> last_variant.tags,
         releaseDate |-> last_variant.releaseDate]

\* final_cards.append({...}) for one group
BuildCard(sorted_variants) ==
    LET base_variant == sorted_variants[1]
        last_variant == sorted_variants[Len(sorted_variants)]
        kept == DedupVariants(sorted_variants, {})
    IN  [name |-> base_variant.name,
         description |-> last_variant.description,
         variantNumber |-> base_variant.variantNumber,
         variants |-> [i \in 1..Len(kept) |-> kept[i].variantNumber],
         variantImages |-> [i \in 1..Len(kept) |-> ImageOrEmpty(kept[i].variantImage)],
         type |-> last_variant.type,
         super |-> last_variant.super,
         energy |-> last_variant.energy,
         power |-> last_variant.power,
         might |-> last_variant.might,
         colors |-> last_variant.colors,
         tags |-> last_variant.tags,
         releaseDate |-> base_variant.releaseDate]

\* assemble_cards_by_name
assemble_cards_by_name(es) ==
    LET names == SortNames({es[i].name : i \in 1..Len(es)})
    IN  [k \in 1..Len(names) |-> BuildCard(SortVariants(Grouped(es, names[k])))]

(***************************************************************************)
(* Raw records: JSON values of the page payload, and the variant           *)
(* normalizer (build_variant_number .. map_card_variant)                   *)
(***************************************************************************)

\* JSON values as Python sees them after json.loads
JNull == [t |-> "null"]
JStr(s) == [t |-> "str", s |-> s]
JInt(n) == [t |-> "int", n |-> n]
JList(l) == [t |-> "list", l |-> l]
JDict(d) == [t |-> "dict", d |-> d]
EmptyDict == JDict(<<>>)
EmptyList == JList(<<>>)

\* an exception travelling up instead of a value
Raised == [t |-> "raise"]
IsRaised(x) == x.t = "raise"

\* x.get(key, default): AttributeError when x is not a dict
Get(x, key, default) ==
    IF IsRaised(x) THEN Raised
    ELSE IF x.t # "dict" THEN Raised
    ELSE IF key \in DOMAIN x.d THEN x.d[key]
    ELSE default

\* Python truthiness of a JSON value
Truthy(x) ==
    CASE x.t = "null" -> FALSE
      [] x.t = "str" -> x.s # <<>>
      [] x.t = "int" -> x.n # 0
      [] x.t = "list" -> x.l # <<>>
      [] x.t = "dict" -> DOMAIN x.d # {}
      [] OTHER -> FALSE

\* a or b
OrElse(a, b) == IF IsRaised(a) THEN Raised ELSE IF Truthy(a) THEN a ELSE b

\* str(n) for an int
RECURSIVE NatToStr(_)
NatToStr(n) ==
    IF n < 10 THEN <<Digits[n + 1]>>
    ELSE NatToStr(n \div 10) \o <<Digits[(n % 10) + 1]>>

IntToStr(n) == IF n < 0 THEN <<"-">> \o NatToStr(0 - n) ELSE NatToStr(n)

\* s.rjust(width, "0")
RECURSIVE ZeroFill(_, _)
ZeroFill(s, width) == IF Len(s) >= width THEN s ELSE ZeroFill(<<"0">> \o s, width)

\* f"{n:03d}": sign first, zero-padded to three characters in all
Format03d(n) ==
    IF n < 0 THEN <<"-">> \o ZeroFill(NatToStr(0 - n), 2) ELSE ZeroFill(NatToStr(n), 3)


\* normalize_variant_number that replaces every '*'
normalize_variant_number_AllStars(value) ==
    [i \in 1..Len(value) |-> IF value[i] = "*" THEN "s" ELSE value[i]]

\* normalize_variant_number (worker), on a str
normalize_variant_number(value) ==
    IF value # <<>> /\ value[Len(value)] = "*"
    THEN SubSeq(value, 1, Len(value) - 1) \o <<"s">>
    ELSE value

\* card.get("set", {}).get("value", {}).get("id")
SetIdOf(card) ==
    Get(Get(Get(card, "set", EmptyDict), "value", EmptyDict), "id", JNull)

UNKNOWN == <<"U", "N", "K", "N", "O", "W", "N">>

\* build_variant_number: a str, or Raised
build_variant_number(card) ==
    LET public_code == Get(card, "publicCode", JNull)
        collector == Get(card, "collectorNumber", JNull)
        set_id == SetIdOf(card)
        fallback_id == Get(card, "id", JNull)
    IN  IF public_code.t = "str" /\ Contains(public_code.s, "/")
        THEN JStr(normalize_variant_number(SplitHead(public_code.s, "/")))
        ELSE IF IsRaised(set_id) THEN Raised
        ELSE IF set_id.t = "str" /\ collector.t = "int"
        THEN JStr(normalize_variant_number(set_id.s \o <<"-">> \o Format03d(collector.n)))
        ELSE IF fallback_id.t = "str"
        THEN JStr(normalize_variant_number(fallback_id.s))
        ELSE IF fallback_id.t = "int"
        THEN JStr(normalize_variant_number(IntToStr(fallback_id.n)))
        ELSE JStr(UNKNOWN)

\* RELEASE_DATES_BY_SET
SetSFD == <<"S", "F", "D">>
SetOGN == <<"O", "G", "N">>
SetOGS == <<"O", "G", "S">>
DEFAULT_RELEASE_DATE == <<"9", "9", "9", "9", "-", "1", "2", "-", "3", "1">>
Date1031 == <<"2", "0", "2", "5", "-", "1", "0", "-", "3", "1">>
Date0213 == <<"2", "0", "2", "6", "-", "0", "2", "-", "1", "3">>

\* the table with a default that sorts first
RELEASE_DATES_BY_SET_EarlyDefault(set_id) ==
    CASE set_id = SetSFD -> Date0213
      [] set_id = SetOGN -> Date1031
      [] set_id = SetOGS -> Date1031
      [] OTHER -> <<"0", "0", "0", "0", "-", "0", "1", "-", "0", "1">>

\* RELEASE_DATES_BY_SET.get(set_id, DEFAULT_RELEASE_DATE)
RELEASE_DATES_BY_SET(set_id) ==
    CASE set_id = SetSFD -> Date0213
      [] set_id = SetOGN -> Date1031
      [] set_id = SetOGS -> Date1031
      [] OTHER -> DEFAULT_RELEASE_DATE

\* get_release_date_for_card: a str, or Raised
get_release_date_for_card(card) ==
    LET set_id == SetIdOf(card)
    IN  IF IsRaised(set_id) THEN Raised
        ELSE IF set_id.t = "str" THEN JStr(RELEASE_DATES_BY_SET(set_id.s))
        ELSE JStr(DEFAULT_RELEASE_DATE)

\* resolve_set_folder
resolve_set_folder(set_id, variant_number) ==
    IF set_id # <<>> THEN set_id
    ELSE IF variant_number # <<>>
    THEN IF Contains(variant_number, "-") /\ SplitHead(variant_number, "-") # <<>>
         THEN SplitHead(variant_number, "-")
         ELSE variant_number
    ELSE <<"u", "n", "k", "n", "o", "w", "n">>

\* get_stat
get_stat(card, key) ==
    LET block == Get(card, key, JNull)
        value == Get(block, "value", JNull)
    IN  IF block.t # "dict" THEN 0
        ELSE IF value.t = "dict" /\ Get(value, "id", JNull).t = "int"
        THEN Get(value, "id", JNull).n
        ELSE 0

\* the str labels of the dicts of a list, in order
LabelsOf(values) ==
    LET labelled == SelectSeq(values,
                        LAMBDA v : v.t = "dict" /\ Get(v, "label", JNull).t = "str")
    IN  [i \in 1..Len(labelled) |-> Get(labelled[i], "label", JNull).s]

\* extract_colors: a list of str, or Raised
extract_colors(card) ==
    LET values == Get(Get(card, "domain", EmptyDict), "values", EmptyList)
    IN  IF IsRaised(values) THEN Raised
        ELSE IF values.t # "list" THEN EmptyList
        ELSE JList(LabelsOf(values.l))

\* deduplicate while preserving order
RECURSIVE Dedup(_, _)
Dedup(list, seen) ==
    IF list = <<>> THEN <<>>
    ELSE IF list[1] \in seen THEN Dedup(Tail(list), seen)
    ELSE <<list[1]>> \o Dedup(Tail(list), seen \cup {list[1]})

\* the str elements and the str labels of the dict elements of a list
TagNames(raw_tags) ==
    LET named == SelectSeq(raw_tags,
                     LAMBDA x : x.t = "str"
                                \/ (x.t = "dict" /\ Get(x, "label", JNull).t = "str"))
    IN  [i \in 1..Len(named) |->
            IF named[i].t = "str" THEN named[i].s ELSE Get(named[i], "label", JNull).s]

\* extract_tags
extract_tags(card) ==
    LET tags_block == OrElse(OrElse(Get(card, "tags", JNull),
                                    Get(card, "traits", JNull)), EmptyDict)
        raw_tags == Get(tags_block, "tags", JNull)
        values == Get(tags_block, "values", JNull)
    IN  IF tags_block.t # "dict" THEN EmptyList
        ELSE JList(Dedup((IF raw_tags.t = "list" THEN TagNames(raw_tags.l) ELSE <<>>)
                         \o (IF values.t = "list" THEN LabelsOf(values.l) ELSE <<>>),
                         {}))

\* extract_type: a str, or Raised
extract_type(card) ==
    LET type_list == OrElse(Get(Get(card, "cardType", EmptyDict), "type", JNull),
                            EmptyList)
    IN  IF IsRaised(type_list) THEN Raised
        ELSE IF type_list.t = "list" /\ type_list.l # <<>>
        THEN LET label == Get(type_list.l[1], "label", JNull)
             IN  IF IsRaised(label) THEN Raised
                 ELSE IF label.t = "str" THEN label
                 ELSE JStr(<<>>)
        ELSE JStr(<<>>)

\* the fallback loop of extract_super over the keys "super", "superType"
RECURSIVE SuperFallback(_, _)
SuperFallback(card, keys) ==
    IF keys = <<>> THEN JNull
    ELSE LET blk == Get(card, keys[1], JNull)
             value == Get(blk, "value", EmptyDict)
             label == OrElse(Get(value, "label", JNull), Get(blk, "label", JNull))
         IN  IF blk.t # "dict" THEN SuperFallback(card, Tail(keys))
             ELSE IF IsRaised(label) THEN Raised
             ELSE IF label.t = "str" THEN label
             ELSE SuperFallback(card, Tail(keys))

\* extract_super: a str, None, or Raised
extract_super(card) ==
    LET card_type == Get(card, "cardType", EmptyDict)
        super_list == OrElse(Get(card_type, "superType", JNull),
                             Get(card_type, "superTypes", JNull))
        first == super_list.l[1]
    IN  IF IsRaised(super_list) THEN Raised
        ELSE IF /\ super_list.t = "list" /\ super_list.l # <<>>
                /\ first.t = "dict" /\ Get(first, "label", JNull).t = "str"
        THEN Get(first, "label", JNull)
        ELSE SuperFallback(card, <<"super", "superType">>)

\* html_to_text on a body that holds neither markup nor symbol tokens: the
\* text itself ("" for an empty fragment)
html_to_text(html_fragment) == html_fragment

\* extract_description: a str, or Raised
extract_description(card) ==
    LET rich == Get(Get(card, "text", EmptyDict), "richText", EmptyDict)
        body == Get(rich, "body", JNull)
    IN  IF IsRaised(body) THEN Raised
        ELSE IF body.t # "str" THEN JStr(<<>>)
        ELSE JStr(html_to_text(body.s))

\* card.get("cardImage", {}).get("url")
ImageUrlOf(card) == Get(Get(card, "cardImage", EmptyDict), "url", JNull)

\* the url as the handler receives it (a str or None in this model)
AsOptional(x) == IF x.t = "str" THEN Str(x.s) ELSE None

\* what map_card_variant did: the entry it returned (or that it raised), and
\* the handler call it made, if it got that far
MapResult(raised, entry, called, h, url, set_folder, variant_number) ==
    [raised |-> raised, entry |-> entry, called |-> called, h |-> h,
     url |-> url, set_folder |-> set_folder, variant_number |-> variant_number]

\* map_card_variant, with the image handler called on the mode's publisher.
\* The dict is built after the handler returned, so an extractor that raises
\* does so with the image already published and counted.  The name and the
\* image url are a str (or missing / null) in every record the model feeds it.
map_card_variant(card, m, st, objs, part, fault) ==
    LET variant_number == build_variant_number(card)
        release_date == get_release_date_for_card(card)
        sid == SetIdOf(card)
        set_id == IF sid.t = "str" THEN sid.s ELSE <<>>
        set_folder == resolve_set_folder(set_id, variant_number.s)
        variant_image_url == ImageUrlOf(card)
        h == handler(m, st, objs, part, AsOptional(variant_image_url),
                     set_folder, variant_number.s, fault)
        h0 == HandlerResult(<<>>, FALSE, FALSE, <<>>, st, objs, part)
        description == extract_description(card)
        type == extract_type(card)
        super == extract_super(card)
        colors == extract_colors(card)
        tags == extract_tags(card)
    IN  IF \/ IsRaised(variant_number) \/ IsRaised(release_date)
           \/ IsRaised(variant_image_url)
        THEN MapResult(TRUE, <<>>, FALSE, h0, None, <<>>, <<>>)
        ELSE IF h.raised
        THEN MapResult(TRUE, <<>>, TRUE, h,
                 AsOptional(variant_image_url), set_folder, variant_number.s)
        ELSE IF \/ IsRaised(description) \/ IsRaised(type) \/ IsRaised(super)
                \/ IsRaised(colors)
        THEN MapResult(TRUE, <<>>, TRUE, h,
                 AsOptional(variant_image_url), set_folder, variant_number.s)
        ELSE MapResult(FALSE,
                 [name |-> Get(card, "name", JStr(<<>>)).s,
                  description |-> description.s,
                  variantNumber |-> variant_number.s,
                  variantImage |-> Str(h.ref),
                  type |-> type.s,
                  super |-> super,
                  energy |-> get_stat(card, "energy"),
                  power |-> get_stat(card, "power"),
                  might |-> get_stat(card, "might"),
                  colors |-> colors.l,
                  tags |-> tags.l,
                  releaseDate |-> release_date.s,
                  setId |-> set_id],
                 TRUE, h, AsOptional(variant_image_url), set_folder, variant_number.s)

(***************************************************************************)
(* cards.py: normalize_variant_number, parse_variant_number, sort_variants,*)
(* get_normal_variant_number, simplify_card                                *)
(***************************************************************************)

\* cards.py normalize_variant_number
cards_normalize_variant_number(variant_number) ==
    IF variant_number # <<>> /\ variant_number[Len(variant_number)] = "*"
    THEN SubSeq(variant_number, 1, Len(variant_number) - 1) \o <<"s">>
    ELSE variant_number

\* the prefix ^[A-Z]{3}-\d{3} both patterns start with
HasSetNumberPrefix(vn) ==
    /\ Len(vn) >= 7
    /\ \A i \in 1..3 : IsUpper(vn[i])
    /\ vn[4] = "-"
    /\ \A i \in 5..7 : IsDigit(vn[i])

\* SET_VARIANT_PATTERN.match: ^[A-Z]{3}-\d{3}$
MatchesSetVariantPattern(vn) == HasSetNumberPrefix(vn) /\ Len(vn) = 7

\* parse_variant_number: VARIANT_PARSE_PATTERN ^([A-Z]{3})-(\d{3})(.*)$
parse_variant_number(vn) ==
    IF HasSetNumberPrefix(vn)
    THEN [matched |-> TRUE, prefix |-> SubSeq(vn, 1, 3),
          number |-> ToInt(SubSeq(vn, 5, 7)), suffix |-> SubSeq(vn, 8, Len(vn))]
    ELSE [matched |-> FALSE, prefix |-> <<>>, number |-> 0, suffix |-> <<>>]

\* get_release_date: (variant.get("set") or {}).get("releaseDate") or ""
get_release_date(variant) ==
    IF Falsy(variant.releaseDate) THEN <<>> ELSE variant.releaseDate.s

\* sort_variants.sort_key: (release_date, number, suffix, variant_number),
\* or (release_date, 999999, variant_number, variant_number)
cards_sort_key(variant) ==
    LET parsed == parse_variant_number(variant.variantNumber)
    IN  IF parsed.matched
        THEN <<get_release_date(variant), parsed.number, parsed.suffix,
               variant.variantNumber>>
        ELSE <<get_release_date(variant), 999999, variant.variantNumber,
               variant.variantNumber>>

\* Python's < on the (str, int, str, str) key tuples
CardsKeyLess(a, b) ==
    IF a[1] # b[1] THEN StrLess(a[1], b[1])
    ELSE IF a[2] # b[2] THEN a[2] < b[2]
    ELSE IF a[3] # b[3] THEN StrLess(a[3], b[3])
    ELSE StrLess(a[4], b[4])

RECURSIVE CardsInsert(_, _)
CardsInsert(sorted, x) ==
    IF sorted = <<>> THEN <<x>>
    ELSE IF CardsKeyLess(cards_sort_key(x), cards_sort_key(sorted[Len(sorted)]))
    THEN CardsInsert(SubSeq(sorted, 1, Len(sorted) - 1), x) \o <<sorted[Len(sorted)]>>
    ELSE sorted \o <<x>>

\* sorted(variants, key=sort_key): stable
RECURSIVE CardsSorted(_)
CardsSorted(variants) ==
    IF variants = <<>> THEN <<>>
    ELSE CardsInsert(CardsSorted(SubSeq(variants, 1, Len(variants) - 1)),
                     variants[Len(variants)])

\* sort_variants: the normalized numbers of the sorted variants that have one
sort_variants(variants) ==
    LET kept == SelectSeq(CardsSorted(variants), LAMBDA v : v.variantNumber # <<>>)
    IN  [i \in 1..Len(kept) |-> cards_normalize_variant_number(kept[i].variantNumber)]

\* get_normal_variant_number.sort_key: (release_date, number)
NormalKeyLess(a, b) ==
    IF get_release_date(a) # get_release_date(b)
    THEN StrLess(get_release_date(a), get_release_date(b))
    ELSE parse_variant_number(a.variantNumber).number
             < parse_variant_number(b.variantNumber).number

RECURSIVE NormalInsert(_, _)
NormalInsert(sorted, x) ==
    IF sorted = <<>> THEN <<x>>
    ELSE IF NormalKeyLess(x, sorted[Len(sorted)])
    THEN NormalInsert(SubSeq(sorted, 1, Len(sorted) - 1), x) \o <<sorted[Len(sorted)]>>
    ELSE sorted \o <<x>>

RECURSIVE NormalSorted(_)
NormalSorted(variants) ==
    IF variants = <<>> THEN <<>>
    ELSE NormalInsert(NormalSorted(SubSeq(variants, 1, Len(variants) - 1)),
                      variants[Len(variants)])

\* get_normal_variant_number: None, or the first matching variant's number
get_normal_variant_number(card) ==
    LET matching_variants ==
            SelectSeq(card.cardVariants,
                      LAMBDA v : MatchesSetVariantPattern(v.variantNumber))
    IN  IF matching_variants = <<>> THEN None
        ELSE Str(NormalSorted(matching_variants)[1].variantNumber)

\* list.remove(x) followed by list.insert(0, x)
MoveToFront(list, x) ==
    LET at == IndexOf(list, x)
    IN  <<x>> \o SubSeq(list, 1, at - 1) \o SubSeq(list, at + 1, Len(list))

\* list.insert(at, x): x becomes the element at 0-based position at
InsertAt(list, at, x) ==
    SubSeq(list, 1, at) \o <<x>> \o SubSeq(list, at + 1, Len(list))

rune_base_ids ==
    { <<"O", "G", "N", "-", "0", "4", "2">>, <<"O", "G", "N", "-", "0", "8", "9">>,
      <<"O", "G", "N", "-", "2", "1", "4">>, <<"O", "G", "N", "-", "1", "2", "6">>,
      <<"O", "G", "N", "-", "1", "6", "6">>, <<"O", "G", "N", "-", "0", "0", "7">> }

\* f"https://cdn.piltoverarchive.com/cards/{b_variant}.webp"
RuneImageUrl(b_variant) ==
    << "h", "t", "t", "p", "s", ":", "/", "/", "c", "d", "n", ".",
       "p", "i", "l", "t", "o", "v", "e", "r", "a", "r", "c", "h", "i", "v", "e", ".",
       "c", "o", "m", "/", "c", "a", "r", "d", "s", "/" >>
    \o b_variant \o <<".", "w", "e", "b", "p">>

\* variant_to_image[normalized] after the first loop: the imageUrl of the
\* last variant with that normalized number
VariantToImage(all_variants, normalized) ==
    LET at == {i \in 1..Len(all_variants) :
                  /\ all_variants[i].variantNumber # <<>>
                  /\ cards_normalize_variant_number(all_variants[i].variantNumber)
                         = normalized}
    IN  IF at = {} THEN Str(<<>>)
        ELSE all_variants[CHOOSE i \in at : \A j \in at : j <= i].imageUrl

\* extract_colors (cards.py)
cards_extract_colors(card) ==
    LET named == SelectSeq(card.cardColors, LAMBDA cc : ~cc.none)
    IN  [i \in 1..Len(named) |-> named[i].s]

\* normalize_list
normalize_list(value) ==
    IF value.t = "list" THEN value.v
    ELSE IF value.t = "null" THEN <<>>
    ELSE <<value.v>>

\* simplify_card
simplify_card(card) ==
    LET all_variants == card.cardVariants
        sorted_variant_numbers == sort_variants(all_variants)
        original_normal == get_normal_variant_number(card)
        normal0 == IF Falsy(original_normal) THEN None
                   ELSE Str(cards_normalize_variant_number(original_normal.s))
        \* not in the sorted list: the first sorted number matching the pattern
        matching == SelectSeq(sorted_variant_numbers, MatchesSetVariantPattern)
        normal_variant ==
            IF ~Falsy(normal0) /\ normal0.s \notin Range(sorted_variant_numbers)
               /\ matching # <<>>
            THEN Str(matching[1]) ELSE normal0
        variants1 ==
            IF ~Falsy(normal_variant) /\ normal_variant.s \in Range(sorted_variant_numbers)
            THEN MoveToFront(sorted_variant_numbers, normal_variant.s)
            ELSE sorted_variant_numbers
        is_rune == /\ card.type = "Rune"
                   /\ ~Falsy(normal_variant)
                   /\ normal_variant.s \in rune_base_ids
        b_variant == normal_variant.s \o <<"b">>
        a_variant == normal_variant.s \o <<"a">>
        add_b == is_rune /\ b_variant \notin Range(variants1)
        variants_array ==
            IF ~add_b THEN variants1
            ELSE IF a_variant \in Range(variants1)
            THEN InsertAt(variants1, IndexOf(variants1, a_variant), b_variant)
            ELSE variants1 \o <<b_variant>>
        image(vn) == IF add_b /\ vn = b_variant THEN Str(RuneImageUrl(b_variant))
                     ELSE VariantToImage(all_variants, vn)
        primary == SelectSeq(all_variants,
                             LAMBDA v : ~Falsy(original_normal)
                                        /\ v.variantNumber = original_normal.s)
    IN  [name |-> card.name,
         description |-> card.description,
         variantNumber |-> normal_variant,
         variants |-> variants_array,
         variantImages |-> [i \in 1..Len(variants_array) |-> image(variants_array[i])],
         type |-> card.type,
         super |-> card.super,
         energy |-> card.energy,
         power |-> card.power,
         might |-> card.might,
         colors |-> cards_extract_colors(card),
         tags |-> normalize_list(card.tags),
         releaseDate |-> IF primary = <<>> THEN None
                         ELSE Str(get_release_date(primary[1]))]

(***************************************************************************)
(* SpecAsm: assemble_cards_by_name applied to bounded lists of variant     *)
(* records                                                                 *)
(***************************************************************************)

MaxEntries == 3

\* (variantNumber, releaseDate, setId) of the sample printings
Printings ==
    LET Date2024 == <<"2", "0", "2", "4", "-", "0", "1", "-", "0", "1">>
        Date2025 == <<"2", "0", "2", "5", "-", "0", "1", "-", "0", "1">>
    IN  << [code |-> <<"O", "G", "N", "-", "0", "1", "0", "a">>, date |-> Date2025, set |-> SetOGN],
           [code |-> <<"O", "G", "N", "-", "0", "0", "2">>, date |-> Date2025, set |-> SetOGN],
           [code |-> <<"O", "G", "N", "-", "0", "1", "0">>, date |-> Date2024, set |-> SetOGN],
           [code |-> <<"O", "G", "N", "-", "1", "a", "2">>, date |-> Date2025, set |-> SetOGN],
           [code |-> <<"X", "Y", "Z">>, date |-> DEFAULT_RELEASE_DATE, set |-> <<>>],
           [code |-> <<"O", "G", "N", "-", "R", "0", "1">>, date |-> Date2025, set |-> SetOGN] >>

\* the image reference and descriptive fields of the sample printings
Payloads ==
    << [variantImage |-> Str(<<"i", "1">>), description |-> "d1", type |-> "Unit",
        super |-> "Champion", energy |-> 1, power |-> 1, might |-> 1,
        colors |-> <<"Fury">>, tags |-> <<"Ahri">>],
       [variantImage |-> Str(<<>>), description |-> "d2", type |-> "Spell",
        super |-> "None", energy |-> 2, power |-> 0, might |-> 0,
        colors |-> <<"Calm", "Mind">>, tags |-> <<>>] >>

\* the dict map_card_variant returns
VariantEntry(name, info, p) ==
    [name |-> name,
     description |-> Payloads[p].description,
     variantNumber |-> info.code,
     variantImage |-> Payloads[p].variantImage,
     type |-> Payloads[p].type,
     super |-> Payloads[p].super,
     energy |-> Payloads[p].energy,
     power |-> Payloads[p].power,
     might |-> Payloads[p].might,
     colors |-> Payloads[p].colors,
     tags |-> Payloads[p].tags,
     releaseDate |-> info.date,
     setId |-> info.set]

EntryPool ==
    {VariantEntry(<<"A", "s", "h", "e">>, info, p) :
        info \in Range(Printings), p \in 1..Len(Payloads)}
    \cup
    {VariantEntry(<<"A", "h", "r", "i">>, info, p) :
        info \in {Printings[2], Printings[3]}, p \in 1..Len(Payloads)}

SeqsUpTo(S, n) == UNION {[1..k -> S] : k \in 0..n}

ImgOff ==
    /\ mode = "spaces"
    /\ objects = {}
    /\ partial = {}
    /\ stats = ImageStats
    /\ prevCall = NoCall
    /\ lastCall = NoCall
    /\ nCalls = 0
    /\ ipc = "off"

RawOff ==
    /\ items = <<>>
    /\ pos = 0
    /\ vcode = <<>>
    /\ rpc = "off"
    /\ MainOff

MaxCardVariants == 3

\* one element of a raw card's cardVariants (cards.py input)
CardVariant(vn, date, image) ==
    [variantNumber |-> vn, releaseDate |-> date, imageUrl |-> image]

CardVariantPool ==
    { CardVariant(<<"O", "G", "N", "-", "0", "0", "7">>, Str(Date1031), Str(<<"u", "1">>)),
      CardVariant(<<"O", "G", "N", "-", "0", "0", "7">>, Str(Date1031), Str(<<"u", "2">>)),
      CardVariant(<<"O", "G", "N", "-", "0", "0", "7", "a">>, Str(Date1031), Str(<<"u", "1">>)),
      CardVariant(<<"O", "G", "N", "-", "0", "0", "2">>, Str(Date1031), Str(<<"u", "2">>)),
      CardVariant(<<"O", "G", "N", "-", "0", "0", "2">>, None, Str(<<"u", "1">>)),
      CardVariant(<<"S", "F", "D", "-", "0", "0", "1">>, Str(DEFAULT_RELEASE_DATE), Str(<<>>)),
      CardVariant(<<"O", "G", "N", "-", "3", "0", "8", "*">>, Str(Date1031), Str(<<"u", "1">>)),
      CardVariant(<<"O", "G", "N", "-", "3", "0", "8", "s">>, Str(Date1031), Str(<<"u", "2">>)),
      CardVariant(<<"X", "Y", "Z">>, Str(Date1031), None),
      CardVariant(<<>>, Str(Date1031), Str(<<"u", "1">>)) }

\* a raw card of the cards.py input
RawCard(type, variants) ==
    [name |-> "Fury Rune", description |-> "d", type |-> type, super |-> "None",
     energy |-> 0, power |-> 0, might |-> 0,
     cardColors |-> <<Str(<<"F", "u", "r", "y">>), None>>,
     tags |-> [t |-> "null", v |-> <<>>],
     cardVariants |-> variants]

AsmInit ==
    /\ ImgOff
    /\ RawOff
    /\ cards = <<>>
    /\ simplified = <<>>
    /\ \/ /\ entries \in SeqsUpTo(EntryPool, MaxEntries)
          /\ scard = <<>>
          /\ apc = "input"
       \/ /\ entries = <<>>
          /\ scard \in {RawCard(t, vs) : t \in {"Unit", "Rune"},
                                         vs \in SeqsUpTo(CardVariantPool, MaxCardVariants)}
          /\ apc = "sinput"

\* cards = assemble_cards_by_name(variant_entries)
Assemble ==
    /\ apc = "input"
    /\ cards' = assemble_cards_by_name(entries)
    /\ apc' = "done"
    /\ UNCHANGED <<entries, scard, simplified, imgVars, rawVars, mainVars>>

\* simplified = simplify_card(card)
Simplify ==
    /\ apc = "sinput"
    /\ simplified' = simplify_card(scard)
    /\ apc' = "sdone"
    /\ UNCHANGED <<entries, cards, scard, imgVars, rawVars, mainVars>>

AsmNext == Assemble \/ Simplify

SpecAsm == AsmInit /\ [][AsmNext]_vars

(***************************************************************************)
(* Grouper / sorter properties (checked under SpecAsm)                     *)
(***************************************************************************)

Names(es) == {es[i].name : i \in 1..Len(es)}
GroupOf(es, name) == {es[i] : i \in {j \in 1..Len(es) : es[j].name = name}}
CodesOf(es, name) == {e.variantNumber : e \in GroupOf(es, name)}

\* the position in the input of the first entry, in sorted order, that has
\* the given name and code (equal keys keep their input order)
FirstSortedIndex(es, name, code) ==
    LET at == {i \in 1..Len(es) : es[i].name = name /\ es[i].variantNumber = code}
    IN  CHOOSE i \in at :
            \A j \in at :
                /\ ~KeyLess(variant_sort_key(es[j]), variant_sort_key(es[i]))
                /\ (~KeyLess(variant_sort_key(es[i]), variant_sort_key(es[j])) => i <= j)

\* the position in cardVariants of the first variant, in sort_variants
\* order, whose normalized number is the given one; 0 when there is none
FirstSortedVariant(variants, normalized) ==
    LET at == {i \in 1..Len(variants) :
                  /\ variants[i].variantNumber # <<>>
                  /\ cards_normalize_variant_number(variants[i].variantNumber)
                         = normalized}
    IN  IF at = {} THEN 0
        ELSE CHOOSE i \in at :
                \A j \in at :
                    /\ ~CardsKeyLess(cards_sort_key(variants[j]), cards_sort_key(variants[i]))
                    /\ (~CardsKeyLess(cards_sort_key(variants[i]), cards_sort_key(variants[j]))
                            => i <= j)

\* the half of C5 that is about assemble_cards_by_name
AssembledAligned ==
    apc = "done" =>
        \A k \in 1..Len(cards) :
            /\ Len(cards[k].variants) = Len(cards[k].variantImages)
            /\ \A i \in 1..Len(cards[k].variants) :
                   cards[k].variantImages[i] =
                       ImageOrEmpty(entries[FirstSortedIndex(entries, cards[k].name,
                                        cards[k].variants[i])].variantImage)

\* the half of C5 that is about simplify_card: a missing image may be null or
\* the empty string, and a code the script adds by itself is not constrained
SimplifiedAligned ==
    apc = "sdone" =>
        /\ Len(simplified.variants) = Len(simplified.variantImages)
        /\ \A i \in 1..Len(simplified.variants) :
               LET at == FirstSortedVariant(scard.cardVariants, simplified.variants[i])
               IN  at # 0 =>
                       ImageOrEmpty(simplified.variantImages[i]) =
                           ImageOrEmpty(scard.cardVariants[at].imageUrl)

\* C5: every produced card record has as many variantImages as variants, and
\* variantImages[i] is the image reference of the variant whose code is
\* variants[i] (the first sorted entry with that code; empty when it has no
\* image), for assemble_cards_by_name and for simplify_card.
C5_VariantImagesAligned == AssembledAligned /\ SimplifiedAligned

\* C6: one card per distinct name of the input, and the card's variants hold
\* every distinct code of that name exactly once.
C6_OneCardPerName ==
    apc = "done" =>
        /\ Len(cards) = Cardinality(Names(entries))
        /\ \A n \in Names(entries) :
               Cardinality({k \in 1..Len(cards) : cards[k].name = n}) = 1
        /\ \A k \in 1..Len(cards) :
               /\ Range(cards[k].variants) = CodesOf(entries, cards[k].name)
               /\ Len(cards[k].variants) =
                      Cardinality(CodesOf(entries, cards[k].name))

\* C6 witness: three entries of one name, one code repeated: one card with
\* two variants.
C6_Witness ==
    /\ apc = "done"
    /\ Len(entries) = 3
    /\ Len(cards) = 1
    /\ Len(cards[1].variants) = 2

\* an entry of the group whose sort key no other entry of the group precedes
IsFirstOfGroup(e, group) ==
    e \in group /\ \A o \in group : ~KeyLess(variant_sort_key(o), variant_sort_key(e))

\* an entry of the group whose sort key precedes no other entry's key
IsLastOfGroup(e, group) ==
    e \in group /\ \A o \in group : ~KeyLess(variant_sort_key(e), variant_sort_key(o))

\* C9: variantNumber is the code of the first variant in sorted order (the
\* earliest release): it equals variants[0], is a member of variants, and the
\* card's releaseDate is that variant's releaseDate.
C9_PrimaryIsFirst ==
    apc = "done" =>
        \A k \in 1..Len(cards) :
            /\ cards[k].variants # <<>>
            /\ cards[k].variantNumber = cards[k].variants[1]
            /\ cards[k].variantNumber \in Range(cards[k].variants)
            /\ \E e \in GroupOf(entries, cards[k].name) :
                   /\ IsFirstOfGroup(e, GroupOf(entries, cards[k].name))
                   /\ e.variantNumber = cards[k].variantNumber
                   /\ e.releaseDate = cards[k].releaseDate
            /\ \A o \in GroupOf(entries, cards[k].name) :
                   ~StrLess(o.releaseDate, cards[k].releaseDate)

\* C9 witness: a card of three printings released on two dates, whose primary
\* code is the earliest one.
C9_Witness ==
    /\ apc = "done"
    /\ \E k \in 1..Len(cards) :
           /\ Len(cards[k].variants) = 3
           /\ cards[k].variantNumber = Printings[3].code
           /\ cards[k].releaseDate = Printings[3].date
           /\ cards[k].variants[3] = Printings[1].code

DescriptiveFields(r) ==
    <<r.description, r.type, r.super, r.energy, r.power, r.might, r.colors, r.tags>>

\* C25: simplify_card reports as variantNumber, among the variant codes that
\* match the strict pattern (three uppercase letters, a dash, three digits,
\* no suffix), the one with the smallest number, ties broken by the earliest
\* release date; it is null exactly when no code matches the strict pattern.
C25_SmallestNumberIsPrimary ==
    apc = "sdone" =>
        LET vs == scard.cardVariants
            strict == {i \in 1..Len(vs) : MatchesSetVariantPattern(vs[i].variantNumber)}
            Number(i) == parse_variant_number(vs[i].variantNumber).number
            Date(i) == get_release_date(vs[i])
            Least(i) ==
                \A j \in strict :
                    \/ Number(i) < Number(j)
                    \/ Number(i) = Number(j)
                          /\ (Date(i) = Date(j) \/ StrLess(Date(i), Date(j)))
        IN  IF strict = {} THEN simplified.variantNumber = None
            ELSE \E i \in strict :
                    /\ Least(i)
                    /\ simplified.variantNumber = Str(vs[i].variantNumber)

\* the lists that hold the same records as es, in every order
Reorderings(es) ==
    {[i \in 1..Len(es) |-> es[f[i]]] :
        f \in {g \in [1..Len(es) -> 1..Len(es)] :
                  \A a, b \in 1..Len(es) : g[a] = g[b] => a = b}}

\* C30: the result of assemble_cards_by_name does not depend on the order of
\* its input: every permutation of the same list of variant records (also of
\* a list in which two records share name and variant code but differ in
\* image reference or descriptive fields) gives the identical sequence of
\* cards, returned in ascending order of name.
C30_OrderIndependent ==
    apc = "done" =>
        /\ \A es \in Reorderings(entries) : assemble_cards_by_name(es) = cards
        /\ \A i \in 1..(Len(cards) - 1) : StrLess(cards[i].name, cards[i + 1].name)

\* C10: description, type, superType, energy, power, might, colors and tags
\* are those of the last variant in sorted order.
C10_DescriptiveFromLast ==
    apc = "done" =>
        \A k \in 1..Len(cards) :
            \E e \in GroupOf(entries, cards[k].name) :
                /\ IsLastOfGroup(e, GroupOf(entries, cards[k].name))
                /\ DescriptiveFields(cards[k]) = DescriptiveFields(e)

\* C10 witness: a card whose first and last printing differ in their
\* descriptive fields, and the card carries those of the last.
C10_Witness ==
    /\ apc = "done"
    /\ \E k \in 1..Len(cards) :
           /\ Len(cards[k].variants) >= 2
           /\ \E f \in GroupOf(entries, cards[k].name) :
                  /\ IsFirstOfGroup(f, GroupOf(entries, cards[k].name))
                  /\ ~IsLastOfGroup(f, GroupOf(entries, cards[k].name))
                  /\ DescriptiveFields(f) # DescriptiveFields(cards[k])

\* the sort key as the claim words it: the number is read from the digits
\* right after the dash and the suffix is what follows them; a code without a
\* dash, or without a digit after it, gets (sentinel date, code, 0,
\* lowercased code, code)
ClaimedKey(e) ==
    LET vn == e.variantNumber
        rest == SplitRest(vn, "-")
        lead == LeadingDigits(rest)
    IN  IF Contains(vn, "-") /\ lead # <<>>
        THEN [releaseDate |-> e.releaseDate,
              setId |-> IF e.setId # <<>> THEN e.setId ELSE SplitHead(vn, "-"),
              number |-> ToInt(lead),
              suffix |-> Lower(SubSeq(rest, Len(lead) + 1, Len(rest))),
              variantNumber |-> vn]
        ELSE [releaseDate |-> DEFAULT_RELEASE_DATE, setId |-> vn, number |-> 0,
              suffix |-> Lower(vn), variantNumber |-> vn]

\* C8: within every card the variants are in ascending order of the key
\* (releaseDate, setId, number after the dash, lowercased suffix, code), the
\* malformed codes sorting with the sentinel key; [OGN-010a (2025),
\* OGN-002 (2025), OGN-010 (2024)] sorts to [OGN-010, OGN-002, OGN-010a].
C8_SortedByClaimedKey ==
    apc = "done" =>
        /\ \A k \in 1..Len(cards) :
               \A i \in 1..(Len(cards[k].variants) - 1) :
                   \E a, b \in GroupOf(entries, cards[k].name) :
                       /\ a.variantNumber = cards[k].variants[i]
                       /\ b.variantNumber = cards[k].variants[i + 1]
                       /\ ~KeyLess(ClaimedKey(b), ClaimedKey(a))
        /\ (/\ Len(entries) = 3
            /\ \A i \in 1..3 : entries[i].name = entries[1].name
            /\ <<entries[1].variantNumber, entries[2].variantNumber,
                 entries[3].variantNumber>> = <<Printings[1].code, Printings[2].code, Printings[3].code>>)
           => cards[1].variants = <<Printings[3].code, Printings[2].code, Printings[1].code>>

(***************************************************************************)
(* build_variant_number on one raw record (SpecRaw)                        *)
(***************************************************************************)

\* a key the record does not have
Absent == [t |-> "absent"]

\* the dict holding the keys of fields whose value is not Absent
MkDict(fields) ==
    JDict([k \in {key \in DOMAIN fields : fields[key].t # "absent"} |-> fields[k]])

SetBlock(id) == JDict([value |-> JDict([id |-> id])])

PublicCodes ==
    {Absent, JInt(5),
     JStr(<<"O", "G", "N", "-", "0", "6", "6", "a", "/", "2", "9", "8">>),
     JStr(<<"O", "G", "N", "-", "3", "0", "8", "*", "/", "1">>),
     JStr(<<"/", "2", "9", "8">>),
     JStr(<<"O", "G", "N", "-", "0", "0", "1">>)}

SetBlocks ==
    {Absent, JNull, SetBlock(JStr(SetOGN)), SetBlock(JInt(3)),
     JDict([value |-> JNull]), JDict([value |-> EmptyDict])}

CollectorNumbers == {Absent, JInt(7), JInt(1234), JStr(<<"7">>)}

FallbackIds == {Absent, JStr(<<>>), JStr(<<"a", "b", "*">>), JInt(12)}

RawRecords ==
    {MkDict([publicCode |-> pc, set |-> sb, collectorNumber |-> cn, id |-> fid]) :
        pc \in PublicCodes, sb \in SetBlocks, cn \in CollectorNumbers,
        fid \in FallbackIds}

RawInit ==
    /\ ImgOff
    /\ entries = <<>>
    /\ cards = <<>>
    /\ scard = <<>>
    /\ simplified = <<>>
    /\ apc = "off"
    /\ items \in {<<r>> : r \in RawRecords}
    /\ pos = 0
    /\ vcode = <<>>
    /\ rpc = "raw"
    /\ MainOff

\* vcode = build_variant_number(card)
BuildVariantNumber ==
    /\ rpc = "raw"
    /\ vcode' = build_variant_number(items[1])
    /\ rpc' = "built"
    /\ UNCHANGED <<items, pos, imgVars, asmVars, mainVars>>

\* variant_entries = [map_card_variant(card, image_handler)] on the one record
\* (it has no cardImage, so the handler only counts)
MapRecord ==
    /\ rpc = "raw"
    /\ \E r \in {map_card_variant(items[1], mode, stats, objects, partial, "none")} :
           /\ entries' = IF r.raised THEN entries ELSE <<r.entry>>
           /\ stats' = r.h.stats
           /\ rpc' = IF r.raised THEN "failed" ELSE "mapped"
    /\ pos' = 1
    /\ UNCHANGED <<mode, objects, partial, prevCall, lastCall, nCalls, ipc,
                   cards, scard, simplified, apc, items, vcode, mainVars>>

RawNext == BuildVariantNumber \/ MapRecord

SpecRaw == RawInit /\ [][RawNext]_vars

\* C7: the code build_variant_number returns is never the empty string,
\* whatever the presence, type and content of publicCode, set.value.id,
\* collectorNumber and id.
C7_CodeNeverEmpty == rpc = "built" => vcode # JStr(<<>>)

\* C17: map_card_variant returns a VariantRecord for every mapping-shaped raw
\* record, whatever the presence or type of its sub-fields: no record makes it
\* raise (which would end fetch_cards and the run without any card).
C17_EveryRecordMapped == rpc # "failed"

\* C23: build_variant_number selects in this order: a present public code,
\* cut at its first "/" (one without any "/" is used as is); else set id and
\* collector number as "<setId>-<NNN>"; else the id field as a string; else
\* "UNKNOWN"; the "*" to "s" normalization is applied to whichever was selected.
\* Stated on the first branch: a record whose publicCode is a string gets that
\* string, cut at its first "/" and normalized, as its code.
C23_PublicCodeSelectedFirst ==
    rpc = "built" /\ Get(items[1], "publicCode", JNull).t = "str" =>
        vcode = JStr(normalize_variant_number(
                        SplitHead(Get(items[1], "publicCode", JNull).s, "/")))

(***************************************************************************)
(* fetch_cards: the comprehension over the items, then the grouping (Spec) *)
(***************************************************************************)

MaxItems == 2


\* the cardImage blocks a record of the payload may carry
CardImages ==
    {Absent, JNull, EmptyDict, JDict([url |-> JNull]), JDict([url |-> JStr(<<>>)]),
     JDict([url |-> JStr(<<"u", "1">>)])}

\* a record with the identifying fields only
PlainCard(image) ==
    MkDict([name |-> JStr(<<"A", "s", "h", "e">>),
            publicCode |-> JStr(<<"O", "G", "N", "-", "0", "0", "1", "/", "2", "9", "8">>),
            set |-> SetBlock(JStr(SetOGN)),
            cardImage |-> image])

\* a record with every block map_card_variant reads
FullCard(image) ==
    MkDict([name |-> JStr(<<"A", "s", "h", "e">>),
            publicCode |-> JStr(<<"O", "G", "N", "-", "0", "0", "2", "/", "2", "9", "8">>),
            set |-> SetBlock(JStr(SetOGN)),
            collectorNumber |-> JInt(2),
            cardImage |-> image,
            text |-> JDict([richText |-> JDict([body |-> JStr(<<"h", "i">>)])]),
            cardType |-> JDict([type |-> JList(<<JDict([label |-> JStr(<<"U">>)])>>),
                                superType |-> JList(<<JDict([label |-> JStr(<<"C">>)])>>)]),
            domain |-> JDict([values |-> JList(<<JDict([label |-> JStr(<<"F">>)])>>)]),
            tags |-> JDict([tags |-> JList(<<JStr(<<"T">>), JStr(<<"T">>)>>)]),
            energy |-> JDict([value |-> JDict([id |-> JInt(3)])])])

\* what the items list of the payload may hold; an item that is not a dict
\* is left out by the comprehension
ItemPool ==
    {PlainCard(i) : i \in CardImages} \cup {FullCard(JDict([url |-> JStr(<<"u", "1">>)]))}
    \cup {JNull}

PipeInit ==
    /\ mode \in Modes
    /\ objects \in {{}, {Destination(mode, SetOGN, <<"O", "G", "N", "-", "0", "0", "1">>)}}
    /\ partial = {}
    /\ stats = ImageStats
    /\ prevCall = NoCall
    /\ lastCall = NoCall
    /\ nCalls = 0
    /\ ipc = "run"
    /\ entries = <<>>
    /\ cards = <<>>
    /\ scard = <<>>
    /\ simplified = <<>>
    /\ apc = "off"
    /\ items \in SeqsUpTo(ItemPool, MaxItems)
    /\ pos = 0
    /\ vcode = <<>>
    /\ rpc = "map"
    /\ MainOff

\* one turn of the comprehension on an item that is a dict:
\* variant_entries.append(map_card_variant(card, image_handler))
MapCardVariant(fault) ==
    /\ rpc = "map"
    /\ pos < Len(items)
    /\ items[pos + 1].t = "dict"
    /\ \E r \in {map_card_variant(items[pos + 1], mode, stats, objects, partial, fault)} :
           /\ stats' = r.h.stats
           /\ objects' = r.h.objects
           /\ partial' = r.h.partial
           /\ entries' = IF r.raised THEN entries ELSE Append(entries, r.entry)
           /\ rpc' = IF r.raised THEN "failed" ELSE "map"
           /\ ipc' = IF r.called /\ r.h.raised THEN "failed" ELSE ipc
           /\ nCalls' = IF r.called THEN nCalls + 1 ELSE nCalls
           /\ prevCall' = IF r.called THEN lastCall ELSE prevCall
           /\ lastCall' =
                IF r.called
                THEN [made |-> TRUE, url |-> r.url, set_folder |-> r.set_folder,
                      variant_number |-> r.variant_number, fault |-> fault,
                      existed |-> Destination(mode, r.set_folder, r.variant_number)
                                      \in objects,
                      stored |-> r.h.objects \ objects, ops |-> r.h.ops,
                      raised |-> r.h.raised, ref |-> r.h.ref, isNew |-> r.h.isNew]
                ELSE lastCall
    /\ pos' = pos + 1
    /\ UNCHANGED <<mode, cards, scard, simplified, apc, items, vcode, mainVars>>

\* one turn of the comprehension on an item that is not a dict
SkipItem ==
    /\ rpc = "map"
    /\ pos < Len(items)
    /\ items[pos + 1].t # "dict"
    /\ pos' = pos + 1
    /\ UNCHANGED <<imgVars, asmVars, items, vcode, rpc, mainVars>>

\* return assemble_cards_by_name(variant_entries)
AssembleCards ==
    /\ rpc = "map"
    /\ pos = Len(items)
    /\ cards' = assemble_cards_by_name(entries)
    /\ rpc' = "assembled"
    /\ UNCHANGED <<imgVars, entries, scard, simplified, apc, items, pos, vcode, mainVars>>

Next ==
    \/ \E fault \in Faults(mode) : MapCardVariant(fault)
    \/ SkipItem
    \/ AssembleCards

Spec == PipeInit /\ [][Next]_vars

(***************************************************************************)
(* fetch_cards properties (checked under Spec)                             *)
(***************************************************************************)

\* the record has no image URL: cardImage absent, null, or with an empty or
\* missing url
NoImageUrl(card) ==
    /\ card.t = "dict"
    /\ LET image == Get(card, "cardImage", EmptyDict)
       IN  \/ image.t = "null"
           \/ image.t = "dict" /\ ~Truthy(Get(image, "url", JNull))

\* the consumed items that are records / that are records without an image URL
ConsumedRecords == {i \in 1..pos : items[i].t = "dict"}
ConsumedNoImage == {i \in ConsumedRecords : NoImageUrl(items[i])}

\* the code a well-formed public code yields
CodeOfItem(card) == SplitHead(Get(card, "publicCode", JNull).s, "/")

\* the entries list holds one entry per consumed record, in order
EntryIndex(i) == Cardinality({j \in ConsumedRecords : j <= i})

\* the counters after a step: a handler call adds one to total_variants, one
\* to missing_image_urls when its URL is empty or missing, one to new_images
\* when the publish returned isNewlyUploaded = true; any other step leaves
\* the counters alone
CountersStep ==
    IF nCalls' = nCalls + 1
    THEN /\ stats'.total_variants = stats.total_variants + 1
         /\ stats'.missing_image_urls =
                stats.missing_image_urls + (IF Falsy(lastCall'.url) THEN 1 ELSE 0)
         /\ stats'.new_images =
                stats.new_images + (IF lastCall'.isNew THEN 1 ELSE 0)
    ELSE stats' = stats

\* the counters of a state against the handler calls and the records so far
CountersState ==
    /\ stats.total_variants = nCalls
    /\ rpc # "failed" => stats.total_variants = Cardinality(ConsumedRecords)
    /\ stats.new_images + stats.missing_image_urls <= stats.total_variants

\* C29: after any sequence of image-handler calls in a run the counters never
\* decrease; total_variants is the number of handler calls, which is the
\* number of mapping-shaped raw records processed so far; missing_image_urls
\* counts the calls with an empty or missing URL and new_images the calls
\* whose publish returned isNewlyUploaded = true; so new_images +
\* missing_image_urls <= total_variants in every reachable state.
C29_CountersConsistent == [][CountersStep]_vars /\ []CountersState

\* two records handled: one image newly published, one record without URL
C29_Witness ==
    /\ nCalls = 2
    /\ pos = 2
    /\ stats = [total_variants |-> 2, new_images |-> 1, missing_image_urls |-> 1]

\* C4: a raw record with no image URL never causes an error and is never
\* skipped: the handler returns the empty reference without store or network
\* access, the missing-image counter grows by one per such record, the
\* new-image counter does not grow, and the card built from the record has
\* the empty string at the variantImages index of the variant's code.
C4_MissingImageTolerated ==
    /\ \A i \in ConsumedNoImage :
        /\ ~(rpc = "failed" /\ i = pos)
        /\ EntryIndex(i) <= Len(entries)
        /\ entries[EntryIndex(i)].variantImage = Str(<<>>)
        /\ i = pos => lastCall.made /\ lastCall.ops = <<>> /\ ~lastCall.isNew
        /\ rpc = "assembled" =>
              \E c \in 1..Len(cards) :
                  /\ cards[c].name = Get(items[i], "name", JStr(<<>>)).s
                  /\ \E k \in 1..Len(cards[c].variants) :
                        /\ cards[c].variants[k] = CodeOfItem(items[i])
                        /\ (\A j \in ConsumedRecords :
                                CodeOfItem(items[j]) = CodeOfItem(items[i])
                                    => NoImageUrl(items[j]))
                              => cards[c].variantImages[k] = <<>>
    /\ stats.missing_image_urls = Cardinality(ConsumedNoImage)
    /\ stats.new_images <= Cardinality(ConsumedRecords \ ConsumedNoImage)

(***************************************************************************)
(* compare_cards (SpecCmp)                                                 *)
(***************************************************************************)

\* an element of a snapshot is a dict (a record here; the JSON values carry t)
IsMapping(x) == "t" \notin DOMAIN x

\* fields_to_compare
fields_to_compare ==
    <<"name", "description", "variantNumber", "variants", "type", "super",
      "energy", "power", "might", "colors", "tags", "releaseDate">>

\* the fields whose value, when present, is a list
ListFields == {"variants", "variantImages", "colors", "tags"}

\* len(card.get("variants", []))
VariantCount(card) == IF "variants" \in DOMAIN card THEN Len(card.variants) ELSE 0

\* the body of the field loop: lists as sets, everything else by equality
FieldDiffers(old_card, new_card, field) ==
    IF field \in DOMAIN old_card /\ field \in DOMAIN new_card
    THEN IF field \in ListFields
         THEN Range(old_card[field]) # Range(new_card[field])
         ELSE old_card[field] # new_card[field]
    ELSE (field \in DOMAIN old_card) # (field \in DOMAIN new_card)

\* is_different, over every field of the card including variantImages
is_different_AllFields(old_card, new_card) ==
    \E field \in DOMAIN old_card \cup DOMAIN new_card :
        FieldDiffers(old_card, new_card, field)

\* is_different after the loop over fields_to_compare
is_different(old_card, new_card) ==
    \E i \in 1..Len(fields_to_compare) :
        FieldDiffers(old_card, new_card, fields_to_compare[i])

\* the keys of {card["name"]: card for card in cards}, in insertion order
KeysByName(snapshot) == Dedup([i \in 1..Len(snapshot) |-> snapshot[i].name], {})

\* the value the dict holds for a name: the last card with it
ByName(snapshot, name) ==
    LET at == {i \in 1..Len(snapshot) : snapshot[i].name = name}
    IN  snapshot[CHOOSE i \in at : \A j \in at : j <= i]

\* sum(numbers)
RECURSIVE SumSeq(_)
SumSeq(numbers) ==
    IF numbers = <<>> THEN 0 ELSE numbers[1] + SumSeq(Tail(numbers))

\* sum(f(x) for x in list)
SumOver(list, f(_)) == SumSeq([i \in 1..Len(list) |-> f(list[i])])

\* max(0, n)
Max0(n) == IF n > 0 THEN n ELSE 0

\* card["name"] raises for an element that is no dict or has no name
NameRaises(snapshot) ==
    \E i \in 1..Len(snapshot) :
        ~IsMapping(snapshot[i]) \/ "name" \notin DOMAIN snapshot[i]

\* the report of a run that found no previous snapshot
first_run_report(new_cards) ==
    [raised |-> FALSE,
     added |-> Len(new_cards), updated |-> 0, removed |-> 0, unchanged |-> 0,
     total_variants_added |-> SumOver(new_cards, VariantCount),
     total_variants_removed |-> 0,
     added_names |-> [i \in 1..Len(new_cards) |-> new_cards[i].name],
     updated_names |-> <<>>, removed_names |-> <<>>,
     is_first_run |-> TRUE]

\* compare_cards that counts only the variants of added and removed cards
compare_cards_NoUpdatedDelta(old, new_cards) ==
    IF old.none THEN first_run_report(new_cards)
    ELSE IF NameRaises(old.l) \/ NameRaises(new_cards) THEN [raised |-> TRUE]
    ELSE LET new_names == KeysByName(new_cards)
             old_names == KeysByName(old.l)
             added == SelectSeq(new_names, LAMBDA n : n \notin Range(old_names))
             removed == SelectSeq(old_names, LAMBDA n : n \notin Range(new_names))
             both == SelectSeq(new_names, LAMBDA n : n \in Range(old_names))
             updated == SelectSeq(both,
                 LAMBDA n : is_different(ByName(old.l, n), ByName(new_cards, n)))
             NewCount(n) == VariantCount(ByName(new_cards, n))
             OldCount(n) == VariantCount(ByName(old.l, n))
         IN  [raised |-> FALSE,
              added |-> Len(added), updated |-> Len(updated),
              removed |-> Len(removed), unchanged |-> Len(both) - Len(updated),
              total_variants_added |-> SumOver(added, NewCount),
              total_variants_removed |-> SumOver(removed, OldCount),
              added_names |-> added, updated_names |-> updated,
              removed_names |-> removed, is_first_run |-> FALSE]

\* compare_cards without the old_cards is None branch
compare_cards_NoFirstRun(old, new_cards) ==
    compare_cards_NoUpdatedDelta([none |-> FALSE, l |-> IF old.none THEN <<>> ELSE old.l],
                                 new_cards)

\* compare_cards with every field compared, variantImages included
compare_cards_AllFields(old, new_cards) ==
    IF old.none THEN first_run_report(new_cards)
    ELSE IF NameRaises(old.l) \/ NameRaises(new_cards) THEN [raised |-> TRUE]
    ELSE LET new_names == KeysByName(new_cards)
             old_names == KeysByName(old.l)
             both == SelectSeq(new_names, LAMBDA n : n \in Range(old_names))
             updated == SelectSeq(both,
                 LAMBDA n : is_different_AllFields(ByName(old.l, n), ByName(new_cards, n)))
             r == compare_cards_NoUpdatedDelta(old, new_cards)
         IN  [r EXCEPT !.updated = Len(updated), !.updated_names = updated,
                       !.unchanged = Len(both) - Len(updated)]

\* compare_cards; old is None or a list ([none |-> .., l |-> ..])
compare_cards(old, new_cards) ==
    IF old.none THEN first_run_report(new_cards)
    ELSE IF NameRaises(old.l) \/ NameRaises(new_cards) THEN [raised |-> TRUE]
    ELSE LET new_names == KeysByName(new_cards)
             old_names == KeysByName(old.l)
             added == SelectSeq(new_names, LAMBDA n : n \notin Range(old_names))
             removed == SelectSeq(old_names, LAMBDA n : n \notin Range(new_names))
             both == SelectSeq(new_names, LAMBDA n : n \in Range(old_names))
             updated == SelectSeq(both,
                 LAMBDA n : is_different(ByName(old.l, n), ByName(new_cards, n)))
             NewCount(n) == VariantCount(ByName(new_cards, n))
             OldCount(n) == VariantCount(ByName(old.l, n))
             Gain(n) == Max0(NewCount(n) - OldCount(n))
             Loss(n) == Max0(OldCount(n) - NewCount(n))
         IN  [raised |-> FALSE,
              added |-> Len(added), updated |-> Len(updated),
              removed |-> Len(removed), unchanged |-> Len(both) - Len(updated),
              total_variants_added |->
                  Max0(SumOver(added, NewCount) + SumOver(updated, Gain)),
              total_variants_removed |->
                  Max0(SumOver(updated, Loss) + SumOver(removed, OldCount)),
              added_names |-> added, updated_names |-> updated,
              removed_names |-> removed, is_first_run |-> FALSE]

MaxSnapshot == 2

\* a card of a snapshot; the fields the pool does not vary are fixed
SnapshotCard(name, variants, images, description) ==
    [name |-> name, description |-> description, variantNumber |-> variants[1],
     variants |-> variants, variantImages |-> images, type |-> "Unit",
     super |-> JNull, energy |-> 1, power |-> 0, might |-> 2,
     colors |-> <<"Fury">>, tags |-> <<>>, releaseDate |-> Date1031]

\* the cards a new snapshot may hold
NewCardPool ==
    LET A == <<"O", "G", "N", "-", "0", "0", "1">>
        Aa == <<"O", "G", "N", "-", "0", "0", "1", "a">>
        B == <<"O", "G", "N", "-", "0", "0", "2">>
    IN  {SnapshotCard("Ashe", <<A>>, <<"i1">>, "d1"),
         SnapshotCard("Ashe", <<A>>, <<"i2">>, "d1"),
         SnapshotCard("Ashe", <<A>>, <<"i1">>, "d2"),
         SnapshotCard("Ashe", <<A, Aa>>, <<"i1", "i1">>, "d1"),
         [SnapshotCard("Ashe", <<Aa, A>>, <<"i1", "i1">>, "d1")
             EXCEPT !.variantNumber = A],
         SnapshotCard("Braum", <<B>>, <<"i1">>, "d1")}

\* what a stored snapshot may hold besides cards: a dict without a name
OldCardPool == NewCardPool \cup {[description |-> "d1"]}

CmpInit ==
    /\ ImgOff
    /\ entries = <<>>
    /\ scard = <<>>
    /\ simplified = <<>>
    /\ apc = "off"
    /\ items = <<>>
    /\ pos = 0
    /\ vcode = <<>>
    /\ rpc = "off"
    /\ cards \in SeqsUpTo(NewCardPool, MaxSnapshot)
    /\ old_cards \in {None} \cup {Str(l) : l \in SeqsUpTo(OldCardPool, MaxSnapshot)}
    /\ diff = <<>>
    /\ mpc = "compare"
    /\ RunOff
    /\ LateOff

\* diff = compare_cards(old_cards, cards)
Compare ==
    /\ mpc = "compare"
    /\ \E r \in {compare_cards([none |-> old_cards.none, l |-> old_cards.s], cards)} :
           /\ diff' = r
           /\ mpc' = IF r.raised THEN "failed" ELSE "compared"
    /\ UNCHANGED <<imgVars, asmVars, rawVars, old_cards, runVars, twiceVars, lateVars>>

CmpNext == Compare

SpecCmp == CmpInit /\ [][CmpNext]_vars

(***************************************************************************)
(* Differ properties (checked under SpecCmp)                               *)
(***************************************************************************)

NamesIn(snapshot) == {snapshot[i].name : i \in 1..Len(snapshot)}
NoRepeats(list) == Cardinality(Range(list)) = Len(list)

\* the previous snapshot was given and the comparison returned
Compared == mpc = "compared" /\ ~old_cards.none

\* the card a snapshot holds under a name
CardNamed(snapshot, name) == ByName(snapshot, name)

\* the difference the differ is meant to look for: scalars by equality,
\* variants, colors and tags as sets, variantImages not at all
MeaningfulDifference(o, n) ==
    \/ o.name # n.name
    \/ o.description # n.description
    \/ o.variantNumber # n.variantNumber
    \/ Range(o.variants) # Range(n.variants)
    \/ o.type # n.type
    \/ o.super # n.super
    \/ o.energy # n.energy
    \/ o.power # n.power
    \/ o.might # n.might
    \/ Range(o.colors) # Range(n.colors)
    \/ Range(o.tags) # Range(n.tags)
    \/ o.releaseDate # n.releaseDate

\* C11: compare_cards puts every name in exactly one class: added (only in
\* the new snapshot), removed (only in the previous one), updated (in both
\* and a compared field differs, lists compared as sets) or unchanged;
\* variantImages never count, and added + updated + unchanged is the number
\* of distinct names of the new snapshot.
C11_ClassifiedByName ==
    Compared =>
        LET old == old_cards.s
            both == NamesIn(old) \cap NamesIn(cards)
            changed == {n \in both :
                           MeaningfulDifference(CardNamed(old, n), CardNamed(cards, n))}
        IN  /\ Range(diff.added_names) = NamesIn(cards) \ NamesIn(old)
            /\ Range(diff.removed_names) = NamesIn(old) \ NamesIn(cards)
            /\ Range(diff.updated_names) = changed
            /\ NoRepeats(diff.added_names) /\ diff.added = Len(diff.added_names)
            /\ NoRepeats(diff.removed_names) /\ diff.removed = Len(diff.removed_names)
            /\ NoRepeats(diff.updated_names) /\ diff.updated = Len(diff.updated_names)
            /\ diff.unchanged = Cardinality(both \ changed)
            /\ diff.added + diff.updated + diff.unchanged = Cardinality(NamesIn(cards))

\* a card whose variants were reordered and whose images changed is unchanged,
\* next to an added card
C11_Witness ==
    /\ Compared
    /\ diff.unchanged = 1 /\ diff.added = 1 /\ diff.updated = 0
    /\ \E i \in 1..Len(old_cards.s), j \in 1..Len(cards) :
          /\ old_cards.s[i].name = cards[j].name
          /\ old_cards.s[i].variants # cards[j].variants
          /\ old_cards.s[i].variantImages # cards[j].variantImages

\* the variant count of the card a snapshot holds under a name
CountIn(snapshot, name) == Len(CardNamed(snapshot, name).variants)

\* C12: with a previous snapshot, totalVariantsAdded is the variant count of
\* the added cards plus the increases of the updated cards, and
\* totalVariantsRemoved the variant count of the removed cards plus the
\* decreases of the updated cards; both are >= 0.  Previous [Ashe: [OGN-001]]
\* and new [Ashe: [OGN-001, OGN-001a], Braum: [OGN-002]] give added = 1
\* (Braum), updated = 1 (Ashe), removed = 0 and totalVariantsAdded >= 1.
C12_VariantTotals ==
    Compared =>
        LET old == old_cards.s
            NewCount(n) == CountIn(cards, n)
            OldCount(n) == CountIn(old, n)
            Increase(n) == IF NewCount(n) > OldCount(n) THEN NewCount(n) - OldCount(n) ELSE 0
            Decrease(n) == IF OldCount(n) > NewCount(n) THEN OldCount(n) - NewCount(n) ELSE 0
        IN  /\ diff.total_variants_added =
                  SumOver(diff.added_names, NewCount) + SumOver(diff.updated_names, Increase)
            /\ diff.total_variants_removed =
                  SumOver(diff.removed_names, OldCount) + SumOver(diff.updated_names, Decrease)
            /\ diff.total_variants_added >= 0
            /\ diff.total_variants_removed >= 0
            /\ (/\ Len(old) = 1 /\ Len(cards) = 2
                /\ old[1].name = "Ashe" /\ Len(old[1].variants) = 1
                /\ cards[1].name = "Ashe" /\ Len(cards[1].variants) = 2
                /\ old[1].variants[1] = cards[1].variants[1]
                /\ old[1].description = cards[1].description
                /\ cards[2].name = "Braum")
               => /\ diff.added = 1 /\ diff.added_names = <<"Braum">>
                  /\ diff.updated = 1 /\ diff.updated_names = <<"Ashe">>
                  /\ diff.removed = 0
                  /\ diff.total_variants_added >= 1

\* the scenario of the claim: Ashe gained a variant, Braum is new
C12_Witness ==
    /\ Compared
    /\ Len(old_cards.s) = 1 /\ Len(cards) = 2
    /\ old_cards.s[1].name = "Ashe" /\ Len(old_cards.s[1].variants) = 1
    /\ cards[1].name = "Ashe" /\ Len(cards[1].variants) = 2
    /\ old_cards.s[1].variants[1] = cards[1].variants[1]
    /\ old_cards.s[1].description = cards[1].description
    /\ cards[2].name = "Braum"
    /\ diff.total_variants_added = 2

\* C13: without a previous snapshot every card of the new snapshot is added,
\* updated = removed = unchanged = 0, totalVariantsRemoved = 0,
\* totalVariantsAdded is the sum of the new cards' variant counts and
\* isFirstRun is true; with a previous snapshot, even an empty list,
\* isFirstRun is false.
C13_FirstRun ==
    /\ (mpc \in {"compared", "failed"} /\ old_cards.none) =>
          /\ mpc = "compared"
          /\ diff.is_first_run
          /\ diff.added = Len(cards)
          /\ diff.added_names = [i \in 1..Len(cards) |-> cards[i].name]
          /\ diff.updated = 0 /\ diff.removed = 0 /\ diff.unchanged = 0
          /\ diff.updated_names = <<>> /\ diff.removed_names = <<>>
          /\ diff.total_variants_removed = 0
          /\ diff.total_variants_added =
                SumSeq([i \in 1..Len(cards) |-> Len(cards[i].variants)])
    /\ Compared => ~diff.is_first_run

\* a first run over two cards
C13_Witness ==
    /\ mpc = "compared" /\ old_cards.none
    /\ Len(cards) = 2
    /\ diff.is_first_run /\ diff.added = 2

(***************************************************************************)
(* The page: fetch_html, extract_next_data, the two item locators and      *)
(* fetch_cards as one call                                                 *)
(***************************************************************************)

\* x[key]: KeyError / TypeError when x has no such key or is not a dict
Subscript(x, key) ==
    IF IsRaised(x) THEN Raised
    ELSE IF x.t = "dict" /\ key \in DOMAIN x.d THEN x.d[key]
    ELSE Raised

GalleryType ==
    JStr(<<"r", "i", "f", "t", "b", "o", "u", "n", "d", "C", "a", "r", "d",
           "G", "a", "l", "l", "e", "r", "y">>)

\* isinstance(block, dict) and isinstance(block.get("items"), list)
HasItemsList(block) ==
    block.t = "dict" /\ Get(block, "items", JNull).t = "list"

\* get_cards_from_blades: None (JNull) or the items list of the first
\* gallery blade that has one
get_cards_from_blades(data) ==
    LET blades == Subscript(Subscript(Subscript(Subscript(data, "props"),
                      "pageProps"), "page"), "blades")
        IsHit(blade) ==
            /\ blade.t = "dict"
            /\ Get(blade, "type", JNull) = GalleryType
            /\ HasItemsList(Get(blade, "cards", EmptyDict))
    IN  IF IsRaised(blades) THEN JNull
        ELSE IF blades.t # "list" THEN JNull
        ELSE LET hits == SelectSeq(blades.l, IsHit)
             IN  IF hits = <<>> THEN JNull
                 ELSE JList(Subscript(hits[1].d.cards, "items").l)

\* the order in which the payloads of the model list their keys
PayloadKeyOrder ==
    <<"props", "pageProps", "page", "blades", "type", "cards", "items", "footer">>

\* node.values(), in the order of the document
ValuesOf(node) ==
    LET keys == SelectSeq(PayloadKeyOrder, LAMBDA k : k \in DOMAIN node.d)
    IN  [i \in 1..Len(keys) |-> node.d[keys[i]]]

\* find_cards_items_recursive: depth-first, the first "cards": {"items": [..]}
RECURSIVE find_cards_items_recursive(_)
RECURSIVE FirstResult(_)
find_cards_items_recursive(node) ==
    IF node.t = "dict"
    THEN IF HasItemsList(Get(node, "cards", JNull))
         THEN JList(node.d.cards.d.items.l)
         ELSE FirstResult(ValuesOf(node))
    ELSE IF node.t = "list" THEN FirstResult(node.l)
    ELSE JNull

\* the loop "result = find_cards_items_recursive(v); if result is not None"
FirstResult(nodes) ==
    IF nodes = <<>> THEN JNull
    ELSE LET result == find_cards_items_recursive(Head(nodes))
         IN  IF result # JNull THEN result ELSE FirstResult(Tail(nodes))

\* the two locators consulted in the other order
locate_items_RecursiveFirst(data) ==
    OrElse(find_cards_items_recursive(data), get_cards_from_blades(data))

\* items = get_cards_from_blades(data) or find_cards_items_recursive(data)
locate_items(data) ==
    OrElse(get_cards_from_blades(data), find_cards_items_recursive(data))

\* A page: whether requests.get / raise_for_status succeeds, and the
\* __NEXT_DATA__ script of the HTML: "absent" (no tag), "empty" (no string),
\* "garbled" (not JSON) or "json" with the value json.loads returns
Page(fetch, script, data) == [fetch |-> fetch, script |-> script, data |-> data]

\* extract_next_data(html): the value, or Raised (RuntimeError for a missing
\* or empty tag, JSONDecodeError for text that is not JSON)
extract_next_data(html) ==
    IF html.script \in {"absent", "empty"} THEN Raised
    ELSE IF html.script = "garbled" THEN Raised
    ELSE html.data

\* what the comprehension of fetch_cards leaves: the entries, or that a call
\* of map_card_variant raised, with the counters, the store and the store and
\* network operations issued
Mapped(raised, es, st, objs, part, ops) ==
    [raised |-> raised, entries |-> es, stats |-> st, objects |-> objs,
     partial |-> part, ops |-> ops]

\* the entry of one item put in front of what the later items gave
Prepend(r, rest) ==
    [rest EXCEPT !.entries = <<r.entry>> \o @, !.ops = r.h.ops \o @]

\* [map_card_variant(card, image_handler) for card in items
\*      if isinstance(card, dict)], faults[i] being the fault met by the
\* handler call of the i-th item
RECURSIVE map_items(_, _, _, _, _, _)
RECURSIVE MapRest(_, _, _, _)
map_items(its, faults, m, st, objs, part) ==
    IF its = <<>> THEN Mapped(FALSE, <<>>, st, objs, part, <<>>)
    ELSE IF Head(its).t # "dict"
    THEN map_items(Tail(its), Tail(faults), m, st, objs, part)
    ELSE MapRest(map_card_variant(Head(its), m, st, objs, part, Head(faults)),
                 Tail(its), Tail(faults), m)

\* after the call of map_card_variant on one item gave r: the exception
\* ends the comprehension, a record lets it go on with the store r left
MapRest(r, its, faults, m) ==
    IF r.raised
    THEN Mapped(TRUE, <<>>, r.h.stats, r.h.objects, r.h.partial, r.h.ops)
    ELSE Prepend(r, map_items(its, faults, m, r.h.stats, r.h.objects, r.h.partial))

\* what fetch_cards leaves: the cards it returned, or the stage at which an
\* exception left it
Fetched(stage, es, cs, located, st, objs, part, ops) ==
    [raised |-> stage # "returned", stage |-> stage, entries |-> es,
     cards |-> cs, items |-> located, stats |-> st, objects |-> objs,
     partial |-> part, ops |-> ops]

\* return assemble_cards_by_name(variant_entries), r being what the
\* comprehension left
cards_from_entries(its, r) ==
    IF r.raised
    THEN Fetched("map_card_variant", <<>>, <<>>, its, r.stats, r.objects,
                 r.partial, <<"PAGE">> \o r.ops)
    ELSE Fetched("returned", r.entries, assemble_cards_by_name(r.entries), its,
                 r.stats, r.objects, r.partial, <<"PAGE">> \o r.ops)

\* mutant: a payload without an items list is read as an empty list
cards_from_items_NoCheck(found, faults, m, st, objs, part) ==
    IF found = JNull
    THEN cards_from_entries(<<>>, map_items(<<>>, faults, m, st, objs, part))
    ELSE cards_from_entries(found.l, map_items(found.l, faults, m, st, objs, part))

\* if items is None: raise RuntimeError(...), then the comprehension
cards_from_items(found, faults, m, st, objs, part) ==
    IF found = JNull
    THEN Fetched("locate", <<>>, <<>>, <<>>, st, objs, part, <<"PAGE">>)
    ELSE cards_from_entries(found.l, map_items(found.l, faults, m, st, objs, part))

\* data = extract_next_data(html), then the locate stage
cards_from_data(data, faults, m, st, objs, part) ==
    IF IsRaised(data)
    THEN Fetched("extract_next_data", <<>>, <<>>, <<>>, st, objs, part, <<"PAGE">>)
    ELSE cards_from_items(locate_items(data), faults, m, st, objs, part)

\* fetch_cards(image_handler)
fetch_cards(html, faults, m, st, objs, part) ==
    IF html.fetch # "ok"
    THEN Fetched("fetch_html", <<>>, <<>>, <<>>, st, objs, part, <<"PAGE">>)
    ELSE cards_from_data(extract_next_data(html), faults, m, st, objs, part)

\* how many items fetch_cards finds in the page
ItemCount(html) ==
    LET data == extract_next_data(html)
        found == IF IsRaised(data) THEN JNull ELSE locate_items(data)
    IN  IF html.fetch # "ok" \/ found = JNull THEN 0 ELSE Len(found.l)

(***************************************************************************)
(* SpacesUploader.__init__: the settings read at startup                   *)
(***************************************************************************)

REQUIRED_ENV_VARS ==
    <<"SPACES_ENDPOINT", "SPACES_KEY", "SPACES_SECRET", "SPACES_BUCKET">>

\* s.startswith(p)
StartsWith(s, p) == Len(s) >= Len(p) /\ SubSeq(s, 1, Len(p)) = p

IsLetter(c) == IsUpper(c) \/ c \in Range(LowerLetters)
IsSchemeChar(c) == IsLetter(c) \/ IsDigit(c) \/ c \in {"+", "-", "."}

\* urlparse(url): url[:i] is the scheme when i = url.find(":") > 0, url[0] is
\* a letter and every character before the colon is a scheme character
HasScheme(url) ==
    /\ IndexOf(url, ":") > 1
    /\ IsLetter(url[1])
    /\ \A i \in 1..(IndexOf(url, ":") - 1) : IsSchemeChar(url[i])

\* urlparse(url).scheme
UrlScheme(url) == IF HasScheme(url) THEN Lower(SplitHead(url, ":")) ELSE <<>>

\* urlparse(url).netloc: after "//", up to the first "/", "?" or "#"
UrlNetloc(url) ==
    LET rest == IF HasScheme(url) THEN SplitRest(url, ":") ELSE url
        after == SubSeq(rest, 3, Len(rest))
        stops == {i \in 1..Len(after) : after[i] \in {"/", "?", "#"}}
        end == IF stops = {} THEN Len(after)
               ELSE (CHOOSE i \in stops : \A j \in stops : i <= j) - 1
    IN  IF StartsWith(rest, <<"/", "/">>) THEN SubSeq(after, 1, end) ELSE <<>>

\* mutant: the constructor tests nothing
SpacesUploader_init_NoTests(e) == FALSE

\* SpacesUploader.__init__ raises RuntimeError: a required variable is unset
\* or "", the endpoint is blank, or it has no scheme or no host
SpacesUploader_init(e) ==
    LET missing == SelectSeq(REQUIRED_ENV_VARS, LAMBDA var : Falsy(e[var]))
        stripped == Strip(e["SPACES_ENDPOINT"].s, " ")
        endpoint == IF StartsWith(Lower(stripped), <<"h", "t", "t", "p">>)
                    THEN stripped
                    ELSE <<"h", "t", "t", "p", "s", ":", "/", "/">> \o stripped
    IN  \/ missing # <<>>
        \/ stripped = <<>>
        \/ UrlScheme(endpoint) = <<>>
        \/ UrlNetloc(endpoint) = <<>>

(***************************************************************************)
(* The previous snapshot: download_json and load_existing_cards            *)
(***************************************************************************)

\* cards.json at the publish target:
\*   absent       no such object / file
\*   denied       spaces: get_object raises a ClientError other than
\*                404 / NotFound / NoSuchKey; static: read_text raises IOError
\*   garbled      the content is not JSON
\*   json         the content is JSON; value is what json.loads returns
Stored(kind, value) == [kind |-> kind, value |-> value]

\* SpacesUploader.download_json("cards.json")
download_json(file) ==
    CASE file.kind = "absent" -> JNull
      [] file.kind = "denied" -> Raised
      [] file.kind = "garbled" -> Raised
      [] OTHER -> file.value

\* load_existing_cards(mode, uploader, output_root)
load_existing_cards(m, file) ==
    IF m = "spaces" THEN download_json(file)
    ELSE CASE file.kind = "absent" -> JNull
           [] file.kind \in {"denied", "garbled"} -> JNull
           [] OTHER -> file.value

\* "for card in old_cards": the elements of a list, the keys of a dict, the
\* characters of a str
Iterate(x) ==
    CASE x.t = "list" -> x.l
      [] x.t = "str" -> [i \in 1..Len(x.s) |-> JStr(<<x.s[i]>>)]
      [] x.t = "dict" ->
            LET keys == SelectSeq(PayloadKeyOrder, LAMBDA k : k \in DOMAIN x.d)
            IN  [i \in 1..Len(keys) |-> JStr(keys[i])]

(***************************************************************************)
(* SpecMain: one run of main                                               *)
(***************************************************************************)

GoodEnv ==
    [SPACES_ENDPOINT |-> Str(<<"h", "t", "t", "p", "s", ":", "/", "/", "e">>),
     SPACES_KEY |-> Str(<<"k">>), SPACES_SECRET |-> Str(<<"s">>),
     SPACES_BUCKET |-> Str(<<"b">>)]

\* the settings a deployment may have: complete, one of them unset or "",
\* a blank value, an endpoint without scheme, and endpoints urlparse rejects
EnvPool ==
    {GoodEnv}
    \cup {[GoodEnv EXCEPT ![var] = v] :
            var \in Range(REQUIRED_ENV_VARS), v \in {None, Str(<<>>), Str(<<" ">>)}}
    \cup {[GoodEnv EXCEPT !["SPACES_ENDPOINT"] = Str(v)] :
            v \in {<<"e">>, <<" ", "e", " ">>, <<"h", "t", "t", "p", ":", "/", "/">>,
                   <<"h", "t", "t", "p", "x">>, <<"/", "e">>}}

\* the payload the gallery page embeds when the gallery blade holds its
GalleryBlade(its) ==
    JDict([type |-> GalleryType, cards |-> JDict([items |-> JList(its)])])
GalleryPayload(blades) ==
    JDict([props |-> JDict([pageProps |-> JDict([page |->
        JDict([blades |-> JList(blades)])])])])

CardWithImage == PlainCard(JDict([url |-> JStr(<<"u", "1">>)]))

\* what the gallery URL may answer
PagePool ==
    {Page("error", "absent", JNull),
     Page("ok", "absent", JNull),
     Page("ok", "empty", JNull),
     Page("ok", "garbled", JNull)}
    \cup {Page("ok", "json", data) : data \in
        {GalleryPayload(<<GalleryBlade(<<CardWithImage>>)>>),
         GalleryPayload(<<GalleryBlade(<<PlainCard(Absent),
                            FullCard(JDict([url |-> JStr(<<"u", "1">>)]))>>)>>),
         GalleryPayload(<<GalleryBlade(<<PlainCard(JNull)>>)>>),
         GalleryPayload(<<GalleryBlade(<<>>)>>),
         GalleryPayload(<<GalleryBlade(<<>>),
                          JDict([type |-> JStr(<<"x">>),
                                 cards |-> JDict([items |-> JList(<<CardWithImage>>)])])>>),
         GalleryPayload(<<JDict([type |-> GalleryType, cards |-> JStr(<<"x">>)])>>),
         JDict([props |-> JDict([pageProps |-> JNull]),
                footer |-> JDict([cards |-> JDict([items |-> JList(<<CardWithImage>>)])])]),
         JList(<<JDict([cards |-> JDict([items |-> JList(<<CardWithImage>>)])])>>),
         JDict([props |-> JNull]),
         EmptyDict,
         JNull}}

\* the catalog an earlier clean run on the one-card page has published
PreviousCards ==
    fetch_cards(Page("ok", "json", GalleryPayload(<<GalleryBlade(<<CardWithImage>>)>>)),
                <<"none">>, "static", ImageStats, {}, {}).cards

\* what may be found at the publish target under cards.json
StoredPool ==
    {Stored("absent", JNull), Stored("denied", JNull), Stored("garbled", JNull)}
    \cup {Stored("json", v) : v \in
        {JNull, EmptyDict, JDict([footer |-> JInt(1)]), JStr(<<"x">>), EmptyList,
         JList(<<[description |-> <<"d">>]>>),
         JList(<<JInt(1)>>),
         JList(PreviousCards),
         JList(<<[PreviousCards[1] EXCEPT !.description = <<"o", "l", "d">>]>>)}}

MainInit ==
    /\ mode \in Modes
    /\ objects = {}
    /\ partial = {}
    /\ stats = ImageStats
    /\ prevCall = NoCall
    /\ lastCall = NoCall
    /\ nCalls = 0
    /\ ipc = "off"
    /\ entries = <<>>
    /\ cards = <<>>
    /\ scard = <<>>
    /\ simplified = <<>>
    /\ apc = "off"
    /\ items = <<>>
    /\ pos = 0
    /\ vcode = <<>>
    /\ rpc = "off"
    /\ old_cards = <<>>
    /\ diff = <<>>
    /\ mpc = "start"
    /\ env \in EnvPool
    /\ page \in PagePool
    /\ \E file \in StoredPool : catalog = [before |-> file, now |-> file]
    /\ trace = <<>>
    /\ run1 = <<>>
    /\ run2 = <<>>
    /\ LateOff

\* main: stats = ImageStats(); in spaces mode uploader = SpacesUploader()
Startup ==
    /\ mpc = "start"
    /\ mpc' = IF mode = "spaces" /\ SpacesUploader_init(env) THEN "failed" ELSE "load"
    /\ UNCHANGED <<imgVars, asmVars, rawVars, old_cards, diff, runVars, twiceVars, lateVars>>

\* old_cards = load_existing_cards(args.mode, ...)
LoadExisting ==
    /\ mpc = "load"
    /\ \E r \in {load_existing_cards(mode, catalog.now)} :
           /\ mpc' = IF IsRaised(r) THEN "failed" ELSE "fetch"
           /\ old_cards' = IF IsRaised(r) THEN old_cards
                           ELSE IF r = JNull THEN None
                           ELSE Str(Iterate(r))
    /\ trace' = Append(trace, "READ_CATALOG")
    /\ UNCHANGED <<imgVars, asmVars, rawVars, diff, env, page, catalog, twiceVars, lateVars>>

\* cards = fetch_cards(make_..._image_handler(..., stats))
FetchCards(faults) ==
    /\ mpc = "fetch"
    /\ \E r \in {fetch_cards(page, faults, mode, stats, objects, partial)} :
           /\ mpc' = IF r.raised THEN "failed" ELSE "publish"
           /\ rpc' = r.stage
           /\ items' = r.items
           /\ entries' = r.entries
           /\ cards' = r.cards
           /\ stats' = r.stats
           /\ objects' = r.objects
           /\ partial' = r.partial
           /\ trace' = trace \o r.ops
    /\ UNCHANGED <<mode, prevCall, lastCall, nCalls, ipc, scard, simplified, apc,
                   pos, vcode, old_cards, diff, env, page, catalog, twiceVars, lateVars>>

\* uploader.upload_json(json.dumps(cards), "cards.json") /
\* write_cards_json_static(cards, output_root); fault:
\*   none    the catalog is written
\*   refuse  put_object / mkdir raises, nothing is written
\*   write   static mode: write_text raises after the file was truncated
PublishFaults(m) == IF m = "spaces" THEN {"none", "refuse"} ELSE {"none", "refuse", "write"}

\* the catalog written as soon as the snapshot was read, before the fetch
PublishCatalog_BeforeImages(fault) ==
    /\ mpc = "fetch"
    /\ "WRITE_CATALOG" \notin Range(trace)
    /\ mpc' = IF fault = "none" THEN "fetch" ELSE "failed"
    /\ catalog' = CASE fault = "none" ->
                         [catalog EXCEPT !.now = Stored("json", JList(cards))]
                    [] fault = "refuse" -> catalog
                    [] fault = "write" ->
                         [catalog EXCEPT !.now = Stored("garbled", JNull)]
    /\ trace' = Append(trace, "WRITE_CATALOG")
    /\ UNCHANGED <<imgVars, asmVars, rawVars, old_cards, diff, env, page, twiceVars, lateVars>>

PublishCatalog(fault) ==
    /\ mpc = "publish"
    /\ mpc' = IF fault = "none" THEN "compare" ELSE "failed"
    /\ catalog' = CASE fault = "none" ->
                         [catalog EXCEPT !.now = Stored("json", JList(cards))]
                    [] fault = "refuse" -> catalog
                    [] fault = "write" ->
                         [catalog EXCEPT !.now = Stored("garbled", JNull)]
    /\ trace' = Append(trace, "WRITE_CATALOG")
    /\ UNCHANGED <<imgVars, asmVars, rawVars, old_cards, diff, env, page, twiceVars, lateVars>>

MainNext ==
    \/ Startup
    \/ LoadExisting
    \/ \E faults \in [1..ItemCount(page) -> Faults(mode)] : FetchCards(faults)
    \/ \E fault \in PublishFaults(mode) : PublishCatalog(fault)
    \/ Compare

SpecMain == MainInit /\ [][MainNext]_vars

(***************************************************************************)
(* Properties of a run (checked under SpecMain)                            *)
(***************************************************************************)

\* main has fetched an image or written one
ImageOps == {"HEAD", "GET", "PUT", "EXISTS", "MKDIR", "WRITE"}
TouchedImages == Range(trace) \cap ImageOps # {}

\* nothing was written and no image was looked at: the counters are zero, the
\* store is empty as at the start and cards.json is what it was
NothingPublished ==
    /\ ~TouchedImages
    /\ "WRITE_CATALOG" \notin Range(trace)
    /\ stats = ImageStats
    /\ objects = {}
    /\ partial = {}
    /\ catalog.now = catalog.before

\* the stored snapshot is a JSON list of mappings that all have a name
IsCardList(file) ==
    /\ file.kind = "json"
    /\ file.value.t = "list"
    /\ \A i \in 1..Len(file.value.l) :
           IsMapping(file.value.l[i]) /\ "name" \in DOMAIN file.value.l[i]

\* the exception that ended the run came from reading the snapshot
FailedReadingSnapshot ==
    mpc = "failed" /\ trace # <<>> /\ trace[Len(trace)] = "READ_CATALOG"

\* the exception that ended the run came from compare_cards
FailedComparing == mpc = "failed" /\ diff # <<>>

\* C14: the previous snapshot never fails the run: when cards.json is
\* missing, unreadable, not JSON or not a list of named card mappings, in
\* both modes the run is not ended by reading or comparing it, and a run that
\* ends reports a first run with every new card added.
C14_SnapshotNeverFatal ==
    ~IsCardList(catalog.before) =>
        /\ ~FailedReadingSnapshot
        /\ ~FailedComparing
        /\ mpc = "compared" =>
              /\ diff.is_first_run
              /\ diff.added = Len(cards)
              /\ diff.updated = 0 /\ diff.removed = 0

\* the page has no __NEXT_DATA__ script, or the script has no text
NoPayload == page.fetch = "ok" /\ page.script \in {"absent", "empty"}

\* the payload holds no "cards": {"items": [...]} at any depth
NoItemList ==
    /\ page.fetch = "ok"
    /\ page.script = "json"
    /\ page.data \in
          {EmptyDict, JNull, JDict([props |-> JNull]),
           GalleryPayload(<<JDict([type |-> GalleryType, cards |-> JStr(<<"x">>)])>>)}

\* C15: a page without embedded payload, or a payload in which no item list
\* can be located, aborts the run before any image operation and before any
\* catalog write: the run never reaches publishing, no image is fetched or
\* stored, the counters stay at zero and cards.json is left as it was.
C15_AbortsBeforeAnyWrite ==
    (NoPayload \/ NoItemList) =>
        /\ mpc \in {"start", "load", "fetch", "failed"}
        /\ NothingPublished

C15_Witness ==
    /\ NoItemList
    /\ page.data = JDict([props |-> JNull])
    /\ mpc = "failed"
    /\ rpc = "locate"
    /\ trace = <<"READ_CATALOG", "PAGE">>
    /\ catalog.before.kind = "json"

\* C16: a payload whose card-gallery items list is empty, and which holds no
\* other items list, ends in the hard failure of the locate stage: the run
\* does not go on to publish an empty catalog.
C16_EmptyGalleryFails ==
    (page.fetch = "ok" /\ page.script = "json"
        /\ page.data = GalleryPayload(<<GalleryBlade(<<>>)>>)) =>
        /\ mpc \in {"start", "load", "fetch", "failed"}
        /\ "WRITE_CATALOG" \notin Range(trace)

\* a required setting is unset or ""
SettingMissing == \E var \in Range(REQUIRED_ENV_VARS) : env[var] \in {None, Str(<<>>)}

\* the endpoint is blank, or has no scheme or no host after "https://" was
\* put in front of a value that does not start with "http"
EndpointInvalid ==
    /\ ~env["SPACES_ENDPOINT"].none
    /\ env["SPACES_ENDPOINT"].s \in
          {<<" ">>, <<"h", "t", "t", "p", ":", "/", "/">>,
           <<"h", "t", "t", "p", "x">>, <<"/", "e">>}

\* C18: in spaces mode, a required setting that is missing or empty, or an
\* invalid endpoint, fails the process at startup: before the page is
\* fetched, before the previous snapshot is read and before any image or
\* catalog write.
C18_FailsAtStartup ==
    (mode = "spaces" /\ (SettingMissing \/ EndpointInvalid)) =>
        /\ mpc \in {"start", "failed"}
        /\ trace = <<>>
        /\ NothingPublished
        /\ old_cards = <<>>

C18_Witness ==
    /\ mode = "spaces"
    /\ env["SPACES_SECRET"] = Str(<<>>)
    /\ catalog.before.kind = "json"
    /\ mpc = "failed"

(***************************************************************************)
(* SpecTwice: normalization, sorting and grouping run twice on one input   *)
(***************************************************************************)

MaxRunItems == 2

\* a record of the card named name, with its code, its set block and its
\* cardImage block
RunCard(name, public_code, set, image) ==
    MkDict([name |-> JStr(name), publicCode |-> JStr(public_code),
            set |-> set, cardImage |-> image])

\* the records of the input: known sets (OGN, SFD), a set the table does not
\* have (AAA), no set block, a set id that is not a string; two of them have
\* an image
RunItemPool ==
    LET Ashe == <<"A", "s", "h", "e">>
        Braum == <<"B", "r", "a", "u", "m">>
    IN  {CardWithImage,
         RunCard(Ashe, <<"S", "F", "D", "-", "0", "0", "1", "/", "1">>,
                 SetBlock(JStr(SetSFD)), JDict([url |-> JStr(<<"u", "2">>)])),
         RunCard(Ashe, <<"A", "A", "A", "-", "0", "0", "1", "/", "1">>,
                 SetBlock(JStr(<<"A", "A", "A">>)), Absent),
         RunCard(Ashe, <<"A", "B", "C", "-", "0", "0", "2", "/", "1">>, Absent, Absent),
         RunCard(Braum, <<"O", "G", "N", "-", "0", "0", "3", "/", "1">>,
                 SetBlock(JStr(SetOGN)), Absent),
         RunCard(Braum, <<"A", "A", "B", "-", "0", "0", "1", "/", "1">>,
                 SetBlock(JInt(3)), Absent)}

\* the faults a run may meet at the image of an item: none, or the download
\* fails and the handler answers the source URL
RunFaults == {"none", "get"}

\* what a run left
RunRecord(r, faults, from) ==
    [done |-> TRUE, raised |-> r.raised, entries |-> r.entries, cards |-> r.cards,
     faults |-> faults, from |-> from, objects |-> r.objects, partial |-> r.partial]

NotRun ==
    [done |-> FALSE, raised |-> FALSE, entries |-> <<>>, cards |-> <<>>,
     faults |-> <<>>, from |-> "", objects |-> {}, partial |-> {}]

TwiceInit ==
    /\ mode \in Modes
    /\ objects \in {{}, {Destination(mode, SetOGN, <<"O", "G", "N", "-", "0", "0", "1">>)}}
    /\ partial = {}
    /\ stats = ImageStats
    /\ prevCall = NoCall
    /\ lastCall = NoCall
    /\ nCalls = 0
    /\ ipc = "off"
    /\ entries = <<>>
    /\ cards = <<>>
    /\ scard = <<>>
    /\ simplified = <<>>
    /\ apc = "off"
    /\ items \in SeqsUpTo(RunItemPool, MaxRunItems)
    /\ pos = 0
    /\ vcode = <<>>
    /\ rpc = "off"
    /\ old_cards = <<>>
    /\ diff = <<>>
    /\ mpc = "off"
    /\ env = <<>>
    /\ page = <<>>
    /\ catalog = <<>>
    /\ trace = <<>>
    /\ run1 = NotRun
    /\ run2 = NotRun
    /\ LateOff

\* the comprehension and assemble_cards_by_name on the items, against the
\* store as it is at the start
FirstRun(faults) ==
    /\ ~run1.done
    /\ \E r \in {cards_from_items(JList(items), faults, mode, ImageStats,
                                  objects, partial)} :
           run1' = RunRecord(r, faults, "start")
    /\ UNCHANGED <<imgVars, asmVars, rawVars, old_cards, diff, mpc, runVars, run2, lateVars>>

\* the same again: against the store as it was at the start ("start"), or
\* as the first run left it ("left")
SecondRun(faults, from) ==
    /\ run1.done
    /\ ~run2.done
    /\ \E r \in {cards_from_items(JList(items), faults, mode, ImageStats,
                     IF from = "start" THEN objects ELSE run1.objects,
                     IF from = "start" THEN partial ELSE run1.partial)} :
           run2' = RunRecord(r, faults, from)
    /\ UNCHANGED <<imgVars, asmVars, rawVars, old_cards, diff, mpc, runVars, run1, lateVars>>

TwiceNext ==
    \/ \E faults \in [1..Len(items) -> RunFaults] : FirstRun(faults)
    \/ \E faults \in [1..Len(items) -> RunFaults], from \in {"start", "left"} :
           SecondRun(faults, from)

SpecTwice == TwiceInit /\ [][TwiceNext]_vars

(***************************************************************************)
(* Properties of the runs (checked under SpecTwice)                        *)
(***************************************************************************)

\* the set of the record is not in the release-date table, or the record has
\* no string set id
UnknownSet(card) ==
    LET set_id == SetIdOf(card)
    IN  set_id.t # "str" \/ set_id.s \notin {SetSFD, SetOGN, SetOGS}

\* the input records that carry a name and a code
ItemsOf(name, code) ==
    {i \in 1..Len(items) :
        /\ items[i].d.name.s = name
        /\ SplitHead(items[i].d.publicCode.s, "/") = code}

\* every record behind the variant is of an unknown set / of a known set
OfUnknownSet(name, code) == \A i \in ItemsOf(name, code) : UnknownSet(items[i])
OfKnownSet(name, code) == \A i \in ItemsOf(name, code) : ~UnknownSet(items[i])

\* C19: a variant whose set is absent from the release-date table, or that
\* has no string set id, gets the release date 9999-12-31, a variant of a
\* known set the date of the table, and in the variants of every card each
\* variant of an unknown set comes after every variant of a known set,
\* whatever their codes.
C19_UnknownSetsLast ==
    (run1.done /\ ~run1.raised) =>
        /\ \A i \in 1..Len(items) :
               /\ UnknownSet(items[i]) =>
                      run1.entries[i].releaseDate = DEFAULT_RELEASE_DATE
               /\ ~UnknownSet(items[i]) =>
                      run1.entries[i].releaseDate \in {Date1031, Date0213}
        /\ \A c \in 1..Len(run1.cards) :
               \A i, j \in 1..Len(run1.cards[c].variants) :
                   (/\ OfUnknownSet(run1.cards[c].name, run1.cards[c].variants[i])
                    /\ OfKnownSet(run1.cards[c].name, run1.cards[c].variants[j]))
                       => j < i

\* an AAA variant (unknown set) after the OGN variant of the same card, though
\* its code is the smaller one
C19_Witness ==
    /\ run1.done
    /\ Len(run1.cards) = 1
    /\ run1.cards[1].variants =
          << <<"O", "G", "N", "-", "0", "0", "1">>, <<"A", "A", "A", "-", "0", "0", "1">> >>
    /\ run1.entries[1].releaseDate = DEFAULT_RELEASE_DATE

\* both runs returned
BothReturned == run1.done /\ run2.done /\ ~run1.raised /\ ~run2.raised

\* no download failed in the run
Clean(run) == \A i \in 1..Len(run.faults) : run.faults[i] = "none"

MaxCodeLen == 3

\* the characters the codes are made of
CodeChars == {"A", "1", "-", "*", "s"}

\* every string over CodeChars up to MaxCodeLen, and the codes of the
\* docstrings
CodePool ==
    SeqsUpTo(CodeChars, MaxCodeLen)
    \cup {<<"O", "G", "N", "-", "3", "0", "8", "*">>,
          <<"O", "G", "N", "-", "3", "0", "8", "s">>,
          <<"O", "G", "N", "-", "0", "6", "6", "a">>}

NormInit ==
    /\ ImgOff
    /\ entries = <<>>
    /\ cards = <<>>
    /\ scard = <<>>
    /\ simplified = <<>>
    /\ apc = "off"
    /\ items = <<>>
    /\ pos = 0
    /\ vcode = <<>>
    /\ rpc = "off"
    /\ old_cards = <<>>
    /\ diff = <<>>
    /\ mpc = "off"
    /\ RunOff
    /\ \E c \in CodePool :
           norm = [step |-> "input", code |-> c, worker |-> <<>>, script |-> <<>>,
                   worker2 |-> <<>>, script2 |-> <<>>]
    /\ mgr = <<>>
    /\ race = <<>>

\* normalize_variant_number(code), in official.py and in cards.py
NormalizeOnce ==
    /\ norm.step = "input"
    /\ norm' = [norm EXCEPT !.step = "once",
                            !.worker = normalize_variant_number(norm.code),
                            !.script = cards_normalize_variant_number(norm.code)]
    /\ UNCHANGED <<imgVars, asmVars, rawVars, old_cards, diff, mpc, runVars,
                   twiceVars, mgr, race>>

\* the same functions on their own results
NormalizeAgain ==
    /\ norm.step = "once"
    /\ norm' = [norm EXCEPT !.step = "twice",
                            !.worker2 = normalize_variant_number(norm.worker),
                            !.script2 = cards_normalize_variant_number(norm.script)]
    /\ UNCHANGED <<imgVars, asmVars, rawVars, old_cards, diff, mpc, runVars,
                   twiceVars, mgr, race>>

NormNext == NormalizeOnce \/ NormalizeAgain

SpecNorm == NormInit /\ [][NormNext]_vars

\* the code ends in '*'
EndsInStar(c) == c # <<>> /\ c[Len(c)] = "*"

\* C21: normalize_variant_number is idempotent; a code without a trailing
\* '*' is returned unchanged, a code ending in '*' has exactly that last
\* character replaced by 's'; the worker and the cards.py implementations
\* agree on every string.
C21_NormalizeIdempotent ==
    /\ norm.step # "input" =>
          /\ norm.worker = norm.script
          /\ ~EndsInStar(norm.code) => norm.worker = norm.code
          /\ EndsInStar(norm.code) =>
                /\ Len(norm.worker) = Len(norm.code)
                /\ \A i \in 1..(Len(norm.code) - 1) : norm.worker[i] = norm.code[i]
                /\ norm.worker[Len(norm.code)] = "s"
    /\ norm.step = "twice" =>
          /\ norm.worker2 = norm.worker
          /\ norm.script2 = norm.script

C21_Witness ==
    /\ norm.step = "twice"
    /\ norm.code = <<"O", "G", "N", "-", "3", "0", "8", "*">>
    /\ norm.worker2 = <<"O", "G", "N", "-", "3", "0", "8", "s">>

(***************************************************************************)
(* The order of the events of a run (checked under SpecMain)               *)
(***************************************************************************)

\* what load_existing_cards gives on the catalog as it was when main started
OldCardsAtStart ==
    LET r == load_existing_cards(mode, catalog.before)
    IN  IF r = JNull THEN None ELSE Str(Iterate(r))

\* the snapshot is read first, the page is fetched second, the image
\* operations follow, and the catalog is written last and at most once
TraceInOrder ==
    \A i \in 1..Len(trace) :
        /\ trace[i] = "READ_CATALOG" <=> i = 1
        /\ trace[i] = "PAGE" <=> i = 2
        /\ trace[i] = "WRITE_CATALOG" => i = Len(trace) /\ i > 2

\* C27: in every run of main, in both modes, the previous snapshot is read,
\* then the page is fetched, then one image operation per variant is performed,
\* then the catalog is written exactly once, then the change report is computed
\* against the snapshot read at the start: the snapshot is never read after the
\* catalog was written and the catalog is never written before every image
\* operation has finished.
C27_EventsInOrder ==
    /\ TraceInOrder
    /\ mpc \in {"start", "load"} => trace = <<>>
    /\ mpc = "fetch" => trace = <<"READ_CATALOG">>
    /\ mpc \in {"fetch", "publish", "compare", "compared"} =>
           old_cards = OldCardsAtStart
    /\ mpc \in {"publish", "compare", "compared"} =>
           /\ Len(trace) >= 2
           /\ stats.total_variants = Len(SelectSeq(items, LAMBDA it : it.t = "dict"))
           /\ Len(entries) = stats.total_variants
    /\ mpc = "publish" => "WRITE_CATALOG" \notin Range(trace)
    /\ mpc \in {"compare", "compared"} =>
           /\ trace[Len(trace)] = "WRITE_CATALOG"
           /\ catalog.now = Stored("json", JList(cards))
    /\ mpc = "compared" =>
           diff = compare_cards([none |-> OldCardsAtStart.none,
                                 l |-> OldCardsAtStart.s], cards)

\* a run that read a snapshot, handled two variants with store operations,
\* replaced the catalog and reported changes against the snapshot it had read
C27_Witness ==
    /\ mpc = "compared"
    /\ ~old_cards.none
    /\ catalog.now # catalog.before
    /\ stats.total_variants = 2
    /\ TouchedImages
    /\ diff.added + diff.updated + diff.removed > 0

(***************************************************************************)
(* SpecMgr: MongoClientManager (src/backend/app/db/client.py) under a      *)
(* sequence of __aenter__ / __aexit__ calls                                *)
(***************************************************************************)

MaxClients == 4
MaxContexts == 3

\* settings.mongodb_uri
MongoUris == {"mongodb://localhost:27017/test", "mongodb://db:27017/app"}

\* MongoClientManager.__init__: self.client = None (0); the factory has made
\* no client; no context is open
MgrInit ==
    /\ ImgOff
    /\ entries = <<>>
    /\ cards = <<>>
    /\ scard = <<>>
    /\ simplified = <<>>
    /\ apc = "off"
    /\ items = <<>>
    /\ pos = 0
    /\ vcode = <<>>
    /\ rpc = "off"
    /\ old_cards = <<>>
    /\ diff = <<>>
    /\ mpc = "off"
    /\ RunOff
    /\ norm = <<>>
    /\ \E uri \in MongoUris :
           mgr = [mongodb_uri |-> uri, client |-> 0, uris |-> <<>>, closed |-> {},
                  held |-> <<>>, enters |-> 0]
    /\ race = <<>>

\* the sequence without its i-th element
RemoveAt(list, i) == SubSeq(list, 1, i - 1) \o SubSeq(list, i + 1, Len(list))

\* __aenter__: the client is made by the factory when there is none; the
\* context that entered holds the client it was given
Enter ==
    /\ Len(mgr.held) < MaxContexts
    /\ mgr.client # 0 \/ Len(mgr.uris) < MaxClients
    /\ \E client \in {IF mgr.client = 0 THEN Len(mgr.uris) + 1 ELSE mgr.client} :
           mgr' = [mgr EXCEPT
                     !.client = client,
                     !.uris = IF mgr.client = 0 THEN Append(@, mgr.mongodb_uri) ELSE @,
                     !.held = Append(@, client),
                     !.enters = IF @ = 0 THEN 1 ELSE @]
    /\ UNCHANGED <<imgVars, asmVars, rawVars, old_cards, diff, mpc, runVars,
                   twiceVars, norm, race>>

\* __aexit__ of the i-th open context: the current client, if any, is closed
\* and forgotten
Exit(i) ==
    /\ i \in 1..Len(mgr.held)
    /\ mgr' = [mgr EXCEPT
                 !.closed = IF mgr.client # 0 THEN @ \cup {mgr.client} ELSE @,
                 !.client = 0,
                 !.held = RemoveAt(@, i)]
    /\ UNCHANGED <<imgVars, asmVars, rawVars, old_cards, diff, mpc, runVars,
                   twiceVars, norm, race>>

MgrNext ==
    \/ Enter
    \/ \E i \in 1..MaxContexts : Exit(i)

SpecMgr == MgrInit /\ [][MgrNext]_vars

\* C22: for any sequence of enter / exit operations, no client is made
\* before the first enter; while a context is open manager.client is a
\* client the factory made with settings.mongodb_uri and it is open; and once
\* no context is open manager.client is None and every client made is closed.
C22_ClientLifecycle ==
    /\ mgr.enters = 0 => mgr.uris = <<>>
    /\ mgr.held # <<>> =>
          /\ mgr.client \in 1..Len(mgr.uris)
          /\ mgr.uris[mgr.client] = mgr.mongodb_uri
          /\ mgr.client \notin mgr.closed
    /\ mgr.held = <<>> =>
          /\ mgr.client = 0
          /\ mgr.closed = 1..Len(mgr.uris)

(***************************************************************************)
(* The item locators on payloads of many shapes (SpecLocate)               *)
(***************************************************************************)

\* item lists that can be told apart
ItemsA == <<JInt(1)>>
ItemsB == <<JInt(2)>>
ItemsC == <<JInt(3)>>
ItemsD == <<JInt(4)>>

\* a blade of another type that also holds "cards": {"items": [...]}
OtherBlade(its) ==
    JDict([type |-> JStr(<<"x">>), cards |-> JDict([items |-> JList(its)])])

\* what data["props"]["pageProps"]["page"]["blades"] may hold
BladesPool ==
    {JList(b) : b \in
        {<<>>,
         <<GalleryBlade(<<>>)>>,
         <<GalleryBlade(ItemsA)>>,
         <<OtherBlade(ItemsB), GalleryBlade(ItemsA)>>,
         <<OtherBlade(ItemsB), GalleryBlade(<<>>)>>,
         <<GalleryBlade(<<>>), OtherBlade(ItemsB)>>,
         <<JDict([type |-> GalleryType, cards |-> JStr(<<"x">>)]), GalleryBlade(ItemsA)>>,
         <<JDict([footer |-> OtherBlade(ItemsB)])>>}}
    \cup {OtherBlade(ItemsB)}

\* the JSON values of the __NEXT_DATA__ script
LocatePayloads ==
    {MkDict([props |-> p, cards |-> c, footer |-> f]) :
        p \in {Absent, JNull}
              \cup {JDict([pageProps |-> JDict([page |-> JDict([blades |-> b])])]) :
                      b \in BladesPool},
        c \in {Absent, JDict([items |-> JList(ItemsC)]), JDict([items |-> JStr(<<"x">>)])},
        f \in {Absent, OtherBlade(ItemsD), JList(<<JNull, OtherBlade(ItemsD)>>)}}
    \cup {JNull, JList(<<OtherBlade(ItemsB), OtherBlade(ItemsD)>>)}

LocateInit ==
    /\ ImgOff
    /\ entries = <<>>
    /\ cards = <<>>
    /\ scard = <<>>
    /\ simplified = <<>>
    /\ apc = "off"
    /\ items = <<>>
    /\ pos = 0
    /\ vcode = <<>>
    /\ rpc = "data"
    /\ old_cards = <<>>
    /\ diff = <<>>
    /\ mpc = "off"
    /\ env = <<>>
    /\ page \in {Page("ok", "json", data) : data \in LocatePayloads}
    /\ catalog = <<>>
    /\ trace = <<>>
    /\ run1 = <<>>
    /\ run2 = <<>>
    /\ LateOff

\* items = get_cards_from_blades(data) or find_cards_items_recursive(data);
\* if items is None: raise RuntimeError
Locate ==
    /\ rpc = "data"
    /\ \E found \in {locate_items(page.data)} :
           /\ items' = IF found = JNull THEN <<>> ELSE found.l
           /\ rpc' = IF found = JNull THEN "failed" ELSE "located"
    /\ UNCHANGED <<imgVars, asmVars, pos, vcode, mainVars>>

LocateNext == Locate

SpecLocate == LocateInit /\ [][LocateNext]_vars

\* the nodes of a payload in depth-first pre-order: a node, then the subtrees
\* of its child values in insertion order, or of its elements in order
RECURSIVE PreOrder(_)
RECURSIVE PreOrderAll(_)
PreOrder(node) ==
    <<node>> \o (IF node.t = "dict" THEN PreOrderAll(ValuesOf(node))
                 ELSE IF node.t = "list" THEN PreOrderAll(node.l)
                 ELSE <<>>)

PreOrderAll(nodes) ==
    IF nodes = <<>> THEN <<>> ELSE PreOrder(Head(nodes)) \o PreOrderAll(Tail(nodes))

\* a mapping whose own "cards" is a mapping with an "items" list
HoldsCardsItems(node) ==
    node.t = "dict" /\ HasItemsList(Get(node, "cards", JNull))

\* the matching nodes of the payload, in pre-order
MatchesInPreOrder == SelectSeq(PreOrder(page.data), HoldsCardsItems)

\* C24: the structural path is used first, and the recursive search only when
\* the structural path found nothing (no list, or an empty one); the recursive
\* search returns the items list of the first matching node of the payload in
\* depth-first pre-order, and the locate stage fails when there is none.
C24_StructuralThenPreOrder ==
    rpc \in {"located", "failed"} =>
        IF Truthy(get_cards_from_blades(page.data))
        THEN rpc = "located" /\ items = get_cards_from_blades(page.data).l
        ELSE IF MatchesInPreOrder = <<>>
        THEN rpc = "failed"
        ELSE rpc = "located" /\ items = MatchesInPreOrder[1].d.cards.d.items.l

\* the structural path finds nothing, and of several matching nodes with
\* different lists the first in pre-order is returned
C24_Witness ==
    /\ rpc = "located"
    /\ get_cards_from_blades(page.data) = JNull
    /\ Len(MatchesInPreOrder) >= 2
    /\ MatchesInPreOrder[1] = page.data
    /\ MatchesInPreOrder[2].d.cards.d.items.l # items
    /\ "props" \in DOMAIN page.data.d
(***************************************************************************)
(* SpecRace: two calls of the Spaces image handler for one destination     *)
(* path, interleaved at the granularity of their steps                     *)
(***************************************************************************)

Workers == {1, 2}

\* answers of the store and of the image host to one request
RaceAnswers == {"ok", "error"}

\* the source URLs the two records give for the image
RaceUrls == {"u1", "u2"}

RaceInit ==
    /\ ImgOff
    /\ entries = <<>>
    /\ cards = <<>>
    /\ scard = <<>>
    /\ simplified = <<>>
    /\ apc = "off"
    /\ items = <<>>
    /\ pos = 0
    /\ vcode = <<>>
    /\ rpc = "off"
    /\ old_cards = <<>>
    /\ diff = <<>>
    /\ mpc = "off"
    /\ RunOff
    /\ norm = <<>>
    /\ mgr = <<>>
    /\ \E present \in BOOLEAN, urls \in [Workers -> RaceUrls] :
           race = [exists |-> present,
                   url |-> urls,
                   total_variants |-> 0,
                   new_images |-> 0,
                   pc |-> [w \in Workers |-> "call"],
                   is_new |-> [w \in Workers |-> FALSE],
                   image_url |-> [w \in Workers |-> "none"],
                   puts |-> 0]

\* handler: stats.total_variants += 1, then upload_variant_image is entered
\* with a non-empty url
RaceCall(w) ==
    /\ race.pc[w] = "call"
    /\ race' = [race EXCEPT !.total_variants = @ + 1, !.pc[w] = "check"]
    /\ UNCHANGED <<imgVars, asmVars, rawVars, old_cards, diff, mpc, runVars,
                   twiceVars, norm, mgr>>

\* if uploader.object_exists(relative_path): return public url, False
\* (a HEAD error other than 404 leaves the call by an exception)
RaceObjectExists(w, answer) ==
    /\ race.pc[w] = "check"
    /\ race' = [race EXCEPT !.pc[w] = IF answer = "error" THEN "raised"
                                      ELSE IF race.exists THEN "done"
                                      ELSE "download",
                             !.image_url[w] = IF answer = "ok" /\ race.exists
                                              THEN "public" ELSE @]
    /\ UNCHANGED <<imgVars, asmVars, rawVars, old_cards, diff, mpc, runVars,
                   twiceVars, norm, mgr>>

\* requests.get(url, stream=True) and the copy into the buffer; a
\* RequestException returns (url, False)
RaceDownload(w, answer) ==
    /\ race.pc[w] = "download"
    /\ race' = [race EXCEPT !.pc[w] = IF answer = "ok" THEN "put" ELSE "done",
                             !.image_url[w] = IF answer = "ok" THEN @ ELSE race.url[w]]
    /\ UNCHANGED <<imgVars, asmVars, rawVars, old_cards, diff, mpc, runVars,
                   twiceVars, norm, mgr>>

\* return uploader.upload_stream(...), True; a ClientError returns (url, False)
RaceUploadStream(w, answer) ==
    /\ race.pc[w] = "put"
    /\ race' = IF answer = "ok"
               THEN [race EXCEPT !.exists = TRUE, !.puts = @ + 1,
                                 !.is_new[w] = TRUE, !.image_url[w] = "public",
                                 !.pc[w] = "count"]
               ELSE [race EXCEPT !.image_url[w] = race.url[w], !.pc[w] = "done"]
    /\ UNCHANGED <<imgVars, asmVars, rawVars, old_cards, diff, mpc, runVars,
                   twiceVars, norm, mgr>>

\* handler: if is_new: stats.new_images += 1
RaceCount(w) ==
    /\ race.pc[w] = "count"
    /\ race' = [race EXCEPT !.new_images = @ + 1, !.pc[w] = "done"]
    /\ UNCHANGED <<imgVars, asmVars, rawVars, old_cards, diff, mpc, runVars,
                   twiceVars, norm, mgr>>

RaceNext ==
    \E w \in Workers :
        \/ RaceCall(w)
        \/ \E answer \in RaceAnswers : RaceObjectExists(w, answer)
        \/ \E answer \in RaceAnswers : RaceDownload(w, answer)
        \/ \E answer \in RaceAnswers : RaceUploadStream(w, answer)
        \/ RaceCount(w)

SpecRace == RaceInit /\ [][RaceNext]_vars

\* C26: two image publish operations for the same destination path, run
\* concurrently and interleaved at their steps (existence check, source
\* download, store PUT), resolve to "exists, skip" or "one uploader wins": at
\* most one of them uploads and reports isNewlyUploaded = true, and the
\* new-image counter grows by at most one for that path.
C26_OneUploaderWins ==
    /\ Cardinality({w \in Workers : race.is_new[w]}) <= 1
    /\ race.puts <= 1
    /\ race.new_images <= 1

====
